---- MODULE Spec2Model ----
(***************************************************************************)
(* A model of the cognitive core of OzCog/601ml: the AtomSpace hypergraph  *)
(* store (atomspace.ts), the Scheme adapter (scheme-adapter.ts), the       *)
(* agentic translator (translators.ts) and the tensor fragment processor   *)
(* (tensor-fragments.ts).                                                   *)
(*                                                                          *)
(* Conventions.                                                             *)
(*  - A JavaScript string is a sequence of one-character strings.           *)
(*  - An optional field is a sequence of length 0 (undefined) or 1.         *)
(*  - Atom objects live in `heap` (index = id): a Link's outgoing array     *)
(*    holds object references, which stay valid after the object has left   *)
(*    the store's Map.  `store.atoms` is the Map's key order.               *)
(*  - Truth value strengths and confidences are in tenths (0.1 -> 1).       *)
(***************************************************************************)
EXTENDS Integers, Sequences, FiniteSets, TLC

VARIABLES
  store,    \* AtomSpace: [atoms, typeIndex, nameIndex]
  heap,     \* every atom object a caller holds, by id
  config,   \* AtomSpaceConfig
  built,    \* TRUE while only createNode and createLink have been called
  last,     \* the last public call: its name, inputs and outcome
  scheme,   \* a SchemeAdapter session: the texts, trees and atoms it has produced
  agentic,  \* an AgenticTranslator session: the primitive, its atoms, what came back
  tensor    \* the tensor fragment table and the calls made on it

vars == <<store, heap, config, built, last, scheme, agentic, tensor>>

(* ------------------------------ bounds -------------------------------- *)

MaxCreated == 3     \* atom objects created in one behaviour
MaxOutgoing == 1    \* length of the outgoing array given to createLink
MaxTextLen == 5     \* length of a Scheme text over the alphabet
MaxParams == 2      \* entries of a primitive's parameters
MaxData == 2        \* length of a caller-supplied Float32Array
MaxNow == 1         \* milliseconds that pass in one behaviour
MaxSize == 30       \* the largest size given to generatePrimeFactorizationMapping
MaxCached == 2      \* entries of a processor's prime factor cache
MaxFactors == 5     \* factors pushed in one run of the trial-division loops

(* ------------------------------ values -------------------------------- *)

None == <<>>
Some(x) == <<x>>

CONCEPT_NODE == "ConceptNode"
PREDICATE_NODE == "PredicateNode"
INHERITANCE_LINK == "InheritanceLink"
EVALUATION_LINK == "EvaluationLink"
LIST_LINK == "ListLink"
LAMBDA_LINK == "LambdaLink"
APPLICATION_LINK == "ApplicationLink"

\* config.truthValueThreshold's default, 0.1, in tenths
TruthValueThreshold == 1

SeqsUpTo(S, n) == UNION {[1..k -> S] : k \in 0..n}

\* the sequences over a set of numbers, of length at most n, in increasing order
IncreasingSeqs(S, n) ==
  {s \in SeqsUpTo(S, n) : \A i \in 1..Len(s), j \in 1..Len(s) : i < j => s[i] < s[j]}

\* the element of a one-element set; `Only({e(r) : r \in {v}})` is e of the
\* value of v, which is computed once
Only(S) == CHOOSE y \in S : TRUE

Range(s) == {s[i] : i \in 1..Len(s)}

(* ------------------------------ AtomSpace ----------------------------- *)

EmptyStore == [atoms |-> <<>>, typeIndex |-> <<>>, nameIndex |-> <<>>]

\* this.atoms.get(id) finds an atom
Has(st, id) == id \in Range(st.atoms)

\* Map<key, Set<string>> lookups: `m.get(k) || new Set()`
IndexGet(m, k) == IF \E i \in 1..Len(m) : m[i].key = k
                  THEN (CHOOSE e \in Range(m) : e.key = k).ids
                  ELSE {}

\* the index entry is not written
IndexAddNothing(m, k, id) == m

\* `if (!m.has(k)) m.set(k, new Set()); m.get(k).add(id)`
IndexAdd(m, k, id) ==
  IF \E i \in 1..Len(m) : m[i].key = k
  THEN [i \in 1..Len(m) |-> IF m[i].key = k
                            THEN [m[i] EXCEPT !.ids = @ \cup {id}] ELSE m[i]]
  ELSE Append(m, [key |-> k, ids |-> {id}])

\* `m.get(k)?.clear()`
IndexDeleteAll(m, k, id) ==
  [i \in 1..Len(m) |-> IF m[i].key = k THEN [m[i] EXCEPT !.ids = {}] ELSE m[i]]

\* `m.get(k)?.delete(id)`
IndexDelete(m, k, id) ==
  [i \in 1..Len(m) |-> IF m[i].key = k
                       THEN [m[i] EXCEPT !.ids = @ \ {id}] ELSE m[i]]

\* getAtom(id): the atom found, if any
GetAtom(st, id) == IF Has(st, id) THEN {id} ELSE {}

\* getAtomsByType(type): the ids of the index entry whose atom the Map holds
GetAtomsByType(st, type) == {id \in IndexGet(st.typeIndex, type) : Has(st, id)}

\* getAtomsByName(name)
GetAtomsByName(st, name) == {id \in IndexGet(st.nameIndex, name) : Has(st, id)}

\* `if (atom.name)`: defined and not the empty string
Truthy(name) == name # None /\ name[1] # <<>>

\* the links of the store whose outgoing array holds an atom with this id
IncomingLinks(st, h, targetId) ==
  SelectSeq(st.atoms,
            LAMBDA a : h[a].isLink /\ targetId \in Range(h[a].outgoing))

RECURSIVE RemoveAtom(_, _, _)
RECURSIVE RemoveEach(_, _, _)

\* removeAtom(id): the store after the call
RemoveAtom(st, h, id) ==
  IF ~Has(st, id) THEN st
  ELSE LET atom == h[id]
           s1 == [st EXCEPT !.typeIndex = IndexDelete(@, atom.type, id)]
           s2 == IF Truthy(atom.name)
                 THEN [s1 EXCEPT !.nameIndex = IndexDelete(@, atom.name[1], id)]
                 ELSE s1
           \* removeIncomingLinks(id)
           s3 == RemoveEach(s2, h, IncomingLinks(s2, h, id))
       IN [s3 EXCEPT !.atoms = SelectSeq(@, LAMBDA a : a # id)]

\* `ids.forEach((id) => this.removeAtom(id))`
RemoveEach(st, h, ids) ==
  IF ids = <<>> THEN st
  ELSE RemoveEach(RemoveAtom(st, h, Head(ids)), h, Tail(ids))

\* the atoms whose strength is at the threshold are removed as well
GarbageCollectAtThreshold(st, h, cfg) ==
  RemoveEach(st, h,
    SelectSeq(st.atoms,
              LAMBDA a : h[a].truthValue # None
                         /\ h[a].truthValue[1].strength <= cfg.truthValueThreshold))

\* garbageCollect(): remove the atoms whose strength is below the threshold
GarbageCollect(st, h, cfg) ==
  RemoveEach(st, h,
    SelectSeq(st.atoms,
              LAMBDA a : h[a].truthValue # None
                         /\ h[a].truthValue[1].strength < cfg.truthValueThreshold))

\* the atom is inserted and then the error is thrown
AddAtomThenThrow(st, h, cfg, atom) ==
  [threw |-> Len(st.atoms) >= cfg.maxAtoms /\ ~cfg.enableGarbageCollection,
   error |-> IF Len(st.atoms) >= cfg.maxAtoms /\ ~cfg.enableGarbageCollection
             THEN Some("AtomSpace is full") ELSE None,
   st |-> [st EXCEPT !.atoms = Append(@, atom.id),
                     !.typeIndex = IndexAdd(@, atom.type, atom.id)]]

\* addAtom(atom): [threw, error, st] with st the store the call leaves
AddAtom(st, h, cfg, atom) ==
  LET full == Len(st.atoms) >= cfg.maxAtoms IN
  IF full /\ ~cfg.enableGarbageCollection
  THEN [threw |-> TRUE, error |-> Some("AtomSpace is full"), st |-> st]
  ELSE LET s0 == IF full THEN GarbageCollect(st, h, cfg) ELSE st
           s1 == [s0 EXCEPT !.atoms = Append(@, atom.id),
                            !.typeIndex = IndexAdd(@, atom.type, atom.id)]
           s2 == IF Truthy(atom.name)
                 THEN [s1 EXCEPT !.nameIndex = IndexAdd(@, atom.name[1], atom.id)]
                 ELSE s1
       IN [threw |-> FALSE, error |-> None, st |-> s2]

\* `confidence: truthValue?.confidence || 1.0`
Confidence(tv) == IF tv = None \/ tv[1].confidence = 0 THEN 10 ELSE tv[1].confidence

\* generateId(): a fresh id (time and random based in the source)
GenerateId(h) == Len(h) + 1

NewNode(h, type, name, tv, value) ==
  [id |-> GenerateId(h), type |-> type, name |-> name, truthValue |-> tv,
   confidence |-> Confidence(tv), isLink |-> FALSE, outgoing |-> <<>>,
   value |-> value]

NewLink(h, type, outgoing, tv) ==
  [id |-> GenerateId(h), type |-> type, name |-> None, truthValue |-> tv,
   confidence |-> Confidence(tv), isLink |-> TRUE, outgoing |-> outgoing,
   value |-> None]

\* createNode / createLink on (store, heap): [threw, error, st, h, id]; addAtom's
\* error passes through, and the caller never gets the object
Create(st, h, cfg, atom) ==
  LET r == AddAtom(st, Append(h, atom), cfg, atom) IN
  IF r.threw
  THEN [threw |-> TRUE, error |-> r.error, st |-> r.st, h |-> h, id |-> 0]
  ELSE [threw |-> FALSE, error |-> None, st |-> r.st, h |-> Append(h, atom),
        id |-> atom.id]

(* ------------------------------ SchemeAdapter: text ------------------- *)

\* SchemeExpression: `value` is the text of a symbol or string, `num` the value of
\* a number (the source keeps both in `value`)
Symbol(v) == [type |-> "symbol", value |-> v, num |-> 0, children |-> <<>>]
String(v) == [type |-> "string", value |-> v, num |-> 0, children |-> <<>>]
Number(n) == [type |-> "number", value |-> <<>>, num |-> n, children |-> <<>>]
List(c) == [type |-> "list", value |-> <<>>, num |-> 0, children |-> c]

Digits == <<"0", "1", "2", "3", "4", "5", "6", "7", "8", "9">>

DigitValue(c) == (CHOOSE i \in 1..10 : Digits[i] = c) - 1

IsDigit(c) == \E i \in 1..10 : Digits[i] = c

\* `!isNaN(Number(token))` for a token over the model's alphabet: a non-empty
\* string of decimal digits
IsNumeric(token) == token # <<>> /\ \A i \in 1..Len(token) : IsDigit(token[i])

RECURSIVE ToNumber(_)
\* Number(token) of a string of decimal digits
ToNumber(token) ==
  IF token = <<>> THEN 0
  ELSE 10 * ToNumber(SubSeq(token, 1, Len(token) - 1)) + DigitValue(token[Len(token)])

RECURSIVE NumberToString(_)
\* String(n) of a non-negative integer
NumberToString(n) ==
  IF n < 10 THEN <<Digits[n + 1]>>
  ELSE Append(NumberToString(n \div 10), Digits[(n % 10) + 1])

IsSpace(c) == c \in {" ", "\t", "\n", "\r"}

RECURSIVE TokenizeFrom(_, _, _, _, _)
\* the loop of tokenize(expression) from position i (1-based), then the flush
TokenizeFrom(expression, i, current, inString, tokens) ==
  IF i > Len(expression)
  THEN IF current # <<>> THEN Append(tokens, current) ELSE tokens
  ELSE LET char == expression[i] IN
       IF char = "\"" /\ (i = 1 \/ expression[i - 1] # "\\")
       THEN TokenizeFrom(expression, i + 1, Append(current, char), ~inString, tokens)
       ELSE IF inString
       THEN TokenizeFrom(expression, i + 1, Append(current, char), inString, tokens)
       ELSE IF IsSpace(char)
       THEN TokenizeFrom(expression, i + 1, <<>>, inString,
                         IF current # <<>> THEN Append(tokens, current) ELSE tokens)
       ELSE IF char = "(" \/ char = ")"
       THEN TokenizeFrom(expression, i + 1, <<>>, inString,
                         Append(IF current # <<>> THEN Append(tokens, current)
                                ELSE tokens, <<char>>))
       ELSE TokenizeFrom(expression, i + 1, Append(current, char), inString, tokens)

Tokenize(expression) == TokenizeFrom(expression, 1, <<>>, FALSE, <<>>)

Thrown(message) == [error |-> Some(message), expr |-> List(<<>>), index |-> 0]

\* token.slice(1): the closing quote is kept
SliceKeepingQuote(token) == SubSeq(token, 2, Len(token))

\* token.slice(1, -1)
Slice1(token) == SubSeq(token, 2, Len(token) - 1)

RECURSIVE ParseNext(_, _)
RECURSIVE ParseChildren(_, _, _)

\* parseNext() with `index` (1-based): [error, expr, index]
ParseNext(tokens, index) ==
  IF index > Len(tokens) THEN Thrown("Unexpected end of tokens")
  ELSE LET token == tokens[index] IN
       IF token = <<"(">> THEN ParseChildren(tokens, index + 1, <<>>)
       ELSE IF token = <<")">> THEN Thrown("Unexpected closing parenthesis")
       ELSE IF token[1] = "\"" /\ token[Len(token)] = "\""
       THEN [error |-> None, expr |-> String(Slice1(token)), index |-> index + 1]
       ELSE IF IsNumeric(token)
       THEN [error |-> None, expr |-> Number(ToNumber(token)), index |-> index + 1]
       ELSE [error |-> None, expr |-> Symbol(token), index |-> index + 1]

\* the `while` loop of a list, then the check for its closing parenthesis
ParseChildren(tokens, index, children) ==
  IF index <= Len(tokens) /\ tokens[index] # <<")">>
  THEN Only({ IF r.error # None THEN r
               ELSE ParseChildren(tokens, r.index, Append(children, r.expr)) :
               r \in {ParseNext(tokens, index)} })
  ELSE IF index > Len(tokens) THEN Thrown("Missing closing parenthesis")
  ELSE [error |-> None, expr |-> List(children), index |-> index + 1]

\* parseTokens(tokens)
ParseTokens(tokens) ==
  IF Len(tokens) > 0 /\ (\E i \in 1..Len(tokens) : tokens[i] = <<")">>)
     /\ ~(\E i \in 1..Len(tokens) : tokens[i] = <<"(">>)
  THEN Thrown("Unexpected closing parenthesis")
  ELSE ParseNext(tokens, 1)

\* parseScheme(expression): a TranslationResult
ParseScheme(expression) ==
  Only({ [success |-> r.error = None, result |-> r.expr, error |-> r.error] :
          r \in {ParseTokens(Tokenize(expression))} })

RECURSIVE ExpressionToString(_)
RECURSIVE JoinChildren(_, _)

\* childStrings.join(' ') from child i on
JoinChildren(children, i) ==
  IF i > Len(children) THEN <<>>
  ELSE (IF i > 1 THEN <<" ">> ELSE <<>>) \o ExpressionToString(children[i])
       \o JoinChildren(children, i + 1)

\* expressionToString(expression)
ExpressionToString(expression) ==
  CASE expression.type = "symbol" -> expression.value
    [] expression.type = "string" -> <<"\"">> \o expression.value \o <<"\"">>
    [] expression.type = "number" -> NumberToString(expression.num)
    [] expression.type = "list" ->
         <<"(">> \o JoinChildren(expression.children, 1) \o <<")">>

(* ------------------------------ SchemeAdapter: atoms ------------------ *)

\* a JavaScript value held in Node.value or in a parameter map
JsNumber(n) == [t |-> "number", n |-> n, s |-> <<>>]
JsString(s) == [t |-> "string", n |-> 0, s |-> s]
\* an object, array or null, by its JSON text
JsObject(json) == [t |-> "object", n |-> 0, s |-> json]

\* SchemeAdapter's default config: defaultConfidence 0.8, in tenths
DefaultConfidence == 8
AdapterConfig == [enableTruthValues |-> TRUE, defaultConfidence |-> DefaultConfidence]

\* `new AtomSpace()`: maxAtoms 1000000
DefaultMaxAtoms == 1000000
DefaultConfig == [maxAtoms |-> DefaultMaxAtoms, enableGarbageCollection |-> TRUE,
                  truthValueThreshold |-> TruthValueThreshold]

\* the truth value convertToAtom gives a symbol or string node
LeafTruthValue(acfg) ==
  IF acfg.enableTruthValues
  THEN Some([strength |-> 10, confidence |-> acfg.defaultConfidence])
  ELSE None

\* createNode / createLink inside a conversion c = [st, h, atoms, threw]; once a
\* call has thrown the conversion is over
CtxCreate(c, cfg, atom) ==
  IF c.threw THEN [c |-> c, atom |-> 0]
  ELSE Only({ [c |-> [c EXCEPT !.st = r.st, !.h = r.h, !.threw = r.threw],
                atom |-> r.id] : r \in {Create(c.st, c.h, cfg, atom)} })

\* the first child's text decides, whether it is a symbol or a string
LinkTypeForAnyLeaf(firstChild) ==
  CASE firstChild.value = <<"l", "a", "m", "b", "d", "a">> -> LAMBDA_LINK
    [] firstChild.value = <<"a", "p", "p", "l", "y">> -> APPLICATION_LINK
    [] firstChild.value = <<"i", "n", "h", "e", "r", "i", "t", "a", "n", "c", "e">>
         -> INHERITANCE_LINK
    [] firstChild.value = <<"e", "v", "a", "l", "u", "a", "t", "i", "o", "n">>
         -> EVALUATION_LINK
    [] OTHER -> LIST_LINK

\* the link type chosen from the first child of a list
LinkTypeFor(firstChild) ==
  IF firstChild.type = "symbol"
  THEN CASE firstChild.value = <<"l", "a", "m", "b", "d", "a">> -> LAMBDA_LINK
         [] firstChild.value = <<"a", "p", "p", "l", "y">> -> APPLICATION_LINK
         [] firstChild.value = <<"i", "n", "h", "e", "r", "i", "t", "a", "n", "c", "e">>
              -> INHERITANCE_LINK
         [] firstChild.value = <<"e", "v", "a", "l", "u", "a", "t", "i", "o", "n">>
              -> EVALUATION_LINK
         [] OTHER -> LIST_LINK
  ELSE LIST_LINK

RECURSIVE ConvertToAtom(_, _, _, _)
RECURSIVE ConvertChildren(_, _, _, _, _, _)

\* convertToAtom(expr): [c, atom]
ConvertToAtom(c, cfg, acfg, expr) ==
  CASE expr.type \in {"symbol", "string"} ->
         CtxCreate(c, cfg, NewNode(c.h, CONCEPT_NODE, Some(expr.value),
                                   LeafTruthValue(acfg), None))
    [] expr.type = "number" ->
         CtxCreate(c, cfg, NewNode(c.h, CONCEPT_NODE, Some(NumberToString(expr.num)),
                                   None, Some(JsNumber(expr.num))))
    [] expr.type = "list" ->
         IF expr.children = <<>>
         THEN CtxCreate(c, cfg, NewLink(c.h, LIST_LINK, <<>>, None))
         ELSE Only({ CtxCreate([r.c EXCEPT !.atoms = @ \o r.childAtoms], cfg,
                               NewLink(r.c.h, LinkTypeFor(expr.children[1]),
                                       r.childAtoms, None)) :
                     r \in {ConvertChildren(c, cfg, acfg, expr.children, 1, <<>>)} })

\* expr.children.map((child) => convertToAtom(child)) from child i on
ConvertChildren(c, cfg, acfg, children, i, childAtoms) ==
  IF i > Len(children) \/ c.threw THEN [c |-> c, childAtoms |-> childAtoms]
  ELSE Only({ ConvertChildren(r.c, cfg, acfg, children, i + 1,
                              Append(childAtoms, r.atom)) :
              r \in {ConvertToAtom(c, cfg, acfg, children[i])} })

\* schemeToAtoms(expression) on (store, heap): the result and the new store, heap
SchemeToAtoms(st, h, cfg, acfg, expression) ==
  Only({ [success |-> ~r.c.threw,
          result |-> IF r.c.threw THEN <<>> ELSE Append(r.c.atoms, r.atom),
          error |-> IF r.c.threw THEN Some("AtomSpace is full") ELSE None,
          st |-> r.c.st, h |-> r.c.h] :
          r \in {ConvertToAtom([st |-> st, h |-> h, atoms |-> <<>>, threw |-> FALSE],
                               cfg, acfg, expression)} })

\* the first unreferenced atom is taken, link or not
FindRootAtomFirst(h, atoms) ==
  LET referencedIds == UNION {Range(h[atoms[i]].outgoing) : i \in 1..Len(atoms)}
      rootAtoms == SelectSeq(atoms, LAMBDA a : a \notin referencedIds)
  IN IF Len(rootAtoms) = 0 THEN [found |-> FALSE, atom |-> 0]
     ELSE [found |-> TRUE, atom |-> rootAtoms[1]]

\* findRootAtom(atoms): [found, atom]
FindRootAtom(h, atoms) ==
  LET referencedIds == UNION {Range(h[atoms[i]].outgoing) : i \in 1..Len(atoms)}
      rootAtoms == SelectSeq(atoms, LAMBDA a : a \notin referencedIds)
      linkRoots == SelectSeq(rootAtoms, LAMBDA a : h[a].isLink)
  IN IF Len(rootAtoms) = 0 THEN [found |-> FALSE, atom |-> 0]
     ELSE IF Len(rootAtoms) > 1 /\ Len(linkRoots) > 0
     THEN [found |-> TRUE, atom |-> linkRoots[1]]
     ELSE [found |-> TRUE, atom |-> rootAtoms[1]]

\* the text of an atom id
IdText(id) == <<"a", "t", "o", "m", "_">> \o NumberToString(id)

\* children.unshift(keyword) for the special link types
Unshift(type, children) ==
  CASE type = LAMBDA_LINK -> <<Symbol(<<"l", "a", "m", "b", "d", "a">>)>> \o children
    [] type = APPLICATION_LINK -> <<Symbol(<<"a", "p", "p", "l", "y">>)>> \o children
    [] type = INHERITANCE_LINK ->
         <<Symbol(<<"i", "n", "h", "e", "r", "i", "t", "a", "n", "c", "e">>)>> \o children
    [] type = EVALUATION_LINK ->
         <<Symbol(<<"e", "v", "a", "l", "u", "a", "t", "i", "o", "n">>)>> \o children
    [] OTHER -> children

RECURSIVE ConvertAtomToExpression(_, _)
\* convertAtomToExpression(atom, allAtoms): the atom objects are read through
\* their references, the store is not consulted
ConvertAtomToExpression(h, a) ==
  IF h[a].isLink
  THEN List(Unshift(h[a].type,
                    [i \in 1..Len(h[a].outgoing) |->
                       ConvertAtomToExpression(h, h[a].outgoing[i])]))
  ELSE IF h[a].value # None /\ h[a].value[1].t = "number"
  THEN Number(h[a].value[1].n)
  ELSE Symbol(IF Truthy(h[a].name) THEN h[a].name[1] ELSE IdText(a))

RECURSIVE ReachedWithin(_, _, _)
\* the atoms met within n steps along outgoing references from the atoms of S
ReachedWithin(h, S, n) ==
  IF n = 0 THEN S
  ELSE ReachedWithin(h, S \cup UNION {Range(h[a].outgoing) : a \in S}, n - 1)

\* convertAtomToExpression(a) never returns: an atom it reaches refers back to
\* itself through outgoing references, and the recursion ends in a RangeError
Overflows(h, a) ==
  \E b \in ReachedWithin(h, {a}, Len(h)) :
    b \in ReachedWithin(h, Range(h[b].outgoing), Len(h))

\* atomsToScheme(atoms): a TranslationResult
AtomsToScheme(h, atoms) ==
  LET root == FindRootAtom(h, atoms) IN
  IF ~root.found
  THEN [success |-> FALSE, result |-> List(<<>>),
        error |-> Some("No root atom found - circular reference detected")]
  ELSE IF Overflows(h, root.atom)
  THEN [success |-> FALSE, result |-> List(<<>>),
        error |-> Some("Maximum call stack size exceeded")]
  ELSE [success |-> TRUE, result |-> ConvertAtomToExpression(h, root.atom),
        error |-> None]

(* ------------------------------ AgenticTranslator --------------------- *)

HasContextName == <<"h", "a", "s", "-", "c", "o", "n", "t", "e", "x", "t">>
UnknownAction ==
  <<"u", "n", "k", "n", "o", "w", "n", "-", "a", "c", "t", "i", "o", "n">>
UnknownAgent == <<"u", "n", "k", "n", "o", "w", "n", "-", "a", "g", "e", "n", "t">>
UnknownGoal == <<"u", "n", "k", "n", "o", "w", "n", "-", "g", "o", "a", "l">>

\* the truth value of the action node and of the main evaluation link
ActionTruthValue == Some([strength |-> 10, confidence |-> 9])

\* String(value) of a scalar, JSON.stringify(value) of an object
ValueName(value) ==
  IF value.t = "number" THEN NumberToString(value.n) ELSE value.s

\* createNode inside a translation, the node pushed onto `into`:
\* [c, atom, list] with list the array after the push
CreateInto(c, cfg, atom, into) ==
  Only({ [c |-> r.c, atom |-> r.atom, list |-> Append(into, r.atom)] :
         r \in {CtxCreate(c, cfg, atom)} })

RECURSIVE CreateParameterStructureKeysOnly(_, _, _, _, _)
\* the value nodes are created but never pushed onto the array
CreateParameterStructureKeysOnly(c, cfg, parameters, i, atoms) ==
  IF i > Len(parameters) \/ c.threw THEN [c |-> c, list |-> atoms]
  ELSE Only({ Only({ CreateParameterStructureKeysOnly(v.c, cfg, parameters, i + 1,
                                                      k.list) :
                     v \in {CreateInto(k.c, cfg,
                                       NewNode(k.c.h, CONCEPT_NODE,
                                               Some(ValueName(parameters[i].value)),
                                               None, Some(parameters[i].value)),
                                       k.list)} }) :
              k \in {CreateInto(c, cfg,
                                NewNode(c.h, CONCEPT_NODE, Some(parameters[i].key),
                                        None, None),
                                atoms)} })

RECURSIVE CreateParameterStructure(_, _, _, _, _)
\* createParameterStructure(parameters) from entry i on: [c, list]
CreateParameterStructure(c, cfg, parameters, i, atoms) ==
  IF i > Len(parameters) \/ c.threw THEN [c |-> c, list |-> atoms]
  ELSE Only({ Only({ CreateParameterStructure(v.c, cfg, parameters, i + 1, v.list) :
                     v \in {CreateInto(k.c, cfg,
                                       NewNode(k.c.h, CONCEPT_NODE,
                                               Some(ValueName(parameters[i].value)),
                                               None, Some(parameters[i].value)),
                                       k.list)} }) :
              k \in {CreateInto(c, cfg,
                                NewNode(c.h, CONCEPT_NODE, Some(parameters[i].key),
                                        None, None),
                                atoms)} })

RECURSIVE CreateNamedNodes(_, _, _, _, _)
\* names.map((name) => createNode(CONCEPT_NODE, name)), pushed onto atoms
CreateNamedNodes(c, cfg, names, i, atoms) ==
  IF i > Len(names) \/ c.threw THEN [c |-> c, list |-> atoms]
  ELSE Only({ CreateNamedNodes(r.c, cfg, names, i + 1, r.list) :
              r \in {CreateInto(c, cfg,
                                NewNode(c.h, CONCEPT_NODE, Some(names[i]), None, None),
                                atoms)} })

\* createContextStructure(context): agent, goal, constraints, resources
CreateContextStructure(c, cfg, context) ==
  CreateNamedNodes(c, cfg,
                   <<context.agent, context.goal>> \o context.constraints
                     \o context.resources,
                   1, <<>>)

\* agenticToHypergraph, step by step; each step yields the translation so far:
\* c (store, heap, the `atoms` array, threw) and the atoms named in the code

\* the action node
WithActionNode(c, cfg, primitive) ==
  Only({ [c |-> [r.c EXCEPT !.atoms = r.list], actionNode |-> r.atom] :
         r \in {CreateInto(c, cfg,
                           NewNode(c.h, PREDICATE_NODE, Some(primitive.action),
                                   ActionTruthValue, None),
                           c.atoms)} })

\* parameterAtoms, pushed onto atoms
WithParameters(c, cfg, primitive) ==
  Only({ Only({ [c |-> [r.c EXCEPT !.atoms = @ \o r.list],
                 actionNode |-> s.actionNode, parameterAtoms |-> r.list] :
                r \in {CreateParameterStructure(s.c, cfg, primitive.parameters,
                                                1, <<>>)} }) :
         s \in {WithActionNode(c, cfg, primitive)} })

\* contextAtoms, pushed onto atoms if the primitive has a context
WithContext(c, cfg, primitive) ==
  Only({ IF primitive.context = None
         THEN [c |-> s.c, actionNode |-> s.actionNode,
               parameterAtoms |-> s.parameterAtoms, contextAtoms |-> <<>>]
         ELSE Only({ [c |-> [r.c EXCEPT !.atoms = @ \o r.list],
                      actionNode |-> s.actionNode,
                      parameterAtoms |-> s.parameterAtoms,
                      contextAtoms |-> r.list] :
                     r \in {CreateContextStructure(s.c, cfg, primitive.context[1])} }) :
         s \in {WithParameters(c, cfg, primitive)} })

\* parameterListLink and evaluationLink
WithEvaluation(c, cfg, primitive) ==
  Only({ Only({ Only({ [c |-> [e.c EXCEPT !.atoms = e.list],
                        contextAtoms |-> s.contextAtoms,
                        evaluationLink |-> e.atom] :
                       e \in {CreateInto(l.c, cfg,
                                         NewLink(l.c.h, EVALUATION_LINK,
                                                 <<s.actionNode, l.atom>>,
                                                 ActionTruthValue),
                                         l.list)} }) :
                l \in {CreateInto(s.c, cfg,
                                  NewLink(s.c.h, LIST_LINK, s.parameterAtoms, None),
                                  s.c.atoms)} }) :
         s \in {WithContext(c, cfg, primitive)} })

\* contextListLink, the has-context node, the inner list link and
\* contextEvaluationLink; only the first and the last are pushed onto atoms
WithContextLink(c, cfg, primitive) ==
  Only({ IF Len(s.contextAtoms) = 0 THEN s.c
         ELSE Only({ Only({ Only({ Only({ [x.c EXCEPT !.atoms = x.list] :
             x \in {CreateInto(i.c, cfg,
                               NewLink(i.c.h, EVALUATION_LINK, <<n.atom, i.atom>>, None),
                               l.list)} }) :
             i \in {CtxCreate(n.c, cfg,
                              NewLink(n.c.h, LIST_LINK, <<s.evaluationLink, l.atom>>,
                                      None))} }) :
             n \in {CtxCreate(l.c, cfg,
                              NewNode(l.c.h, PREDICATE_NODE, Some(HasContextName),
                                      None, None))} }) :
             l \in {CreateInto(s.c, cfg,
                               NewLink(s.c.h, LIST_LINK, s.contextAtoms, None),
                               s.c.atoms)} }) :
         s \in {WithEvaluation(c, cfg, primitive)} })

\* agenticToHypergraph(primitive) on (store, heap): the result and the new
\* store and heap
AgenticToHypergraph(st, h, cfg, primitive) ==
  Only({ [success |-> ~c.threw,
          result |-> IF c.threw THEN <<>> ELSE c.atoms,
          error |-> IF c.threw THEN Some("AtomSpace is full") ELSE None,
          st |-> c.st, h |-> c.h] :
         c \in {WithContextLink([st |-> st, h |-> h, atoms |-> <<>>, threw |-> FALSE],
                                cfg, primitive)} })

JsUndefined == [t |-> "undefined", n |-> 0, s |-> <<>>]
JsBoolean(json) == [t |-> "boolean", n |-> 0, s |-> json]

\* a JSON number without sign, fraction or exponent
IsJsonNumber(text) == IsNumeric(text) /\ (Len(text) = 1 \/ text[1] # "0")

\* a JSON string without escapes
IsJsonString(text) ==
  /\ Len(text) >= 2
  /\ text[1] = "\"" /\ text[Len(text)] = "\""
  /\ \A i \in 2..(Len(text) - 1) : text[i] \notin {"\"", "\\"}

\* JSON.parse(text) for the texts of the model's values: null, the empty array
\* and object, true, false, numbers and strings parse; any other text throws
JsonParse(text) ==
  CASE text \in {<<"n", "u", "l", "l">>, <<"[", "]">>, <<"{", "}">>} ->
         [ok |-> TRUE, value |-> JsObject(text)]
    [] text \in {<<"t", "r", "u", "e">>, <<"f", "a", "l", "s", "e">>} ->
         [ok |-> TRUE, value |-> JsBoolean(text)]
    [] IsJsonNumber(text) -> [ok |-> TRUE, value |-> JsNumber(ToNumber(text))]
    [] IsJsonString(text) -> [ok |-> TRUE, value |-> JsString(Slice1(text))]
    [] OTHER -> [ok |-> FALSE, value |-> JsUndefined]

\* parameters[key] = value on an object kept as its entries in insertion order
SetParam(parameters, key, value) ==
  IF \E i \in 1..Len(parameters) : parameters[i].key = key
  THEN [i \in 1..Len(parameters) |->
          IF parameters[i].key = key THEN [key |-> key, value |-> value]
          ELSE parameters[i]]
  ELSE Append(parameters, [key |-> key, value |-> value])

\* `param_${i / 2}`
ParamName(i) == <<"p", "a", "r", "a", "m", "_">> \o NumberToString(i \div 2)

\* the value extractParameters takes from the value atom, after its JSON step
ExtractedValue(h, valueAtom) ==
  LET value == IF h[valueAtom].value # None THEN h[valueAtom].value[1]
               ELSE IF h[valueAtom].name # None THEN JsString(h[valueAtom].name[1])
               ELSE JsUndefined
  IN IF value.t = "string" /\ JsonParse(value.s).ok
        /\ JsonParse(value.s).value.t = "object"
     THEN JsonParse(value.s).value
     ELSE value

RECURSIVE ExtractParameters(_, _, _, _)
\* extractParameters(parameterAtoms, allAtoms) from index i (0-based) on
ExtractParameters(h, parameterAtoms, i, parameters) ==
  IF i >= Len(parameterAtoms) THEN parameters
  ELSE IF i + 1 < Len(parameterAtoms)
  THEN ExtractParameters(h, parameterAtoms, i + 2,
         SetParam(parameters,
                  IF Truthy(h[parameterAtoms[i + 1]].name)
                  THEN h[parameterAtoms[i + 1]].name[1] ELSE ParamName(i),
                  ExtractedValue(h, parameterAtoms[i + 2])))
  ELSE ExtractParameters(h, parameterAtoms, i + 2, parameters)

\* extractContext(contextEvaluation, allAtoms), given contextList.outgoing
ExtractContext(h, contextAtoms) ==
  [agent |-> IF Len(contextAtoms) > 0 /\ Truthy(h[contextAtoms[1]].name)
             THEN h[contextAtoms[1]].name[1] ELSE UnknownAgent,
   goal |-> IF Len(contextAtoms) > 1 /\ Truthy(h[contextAtoms[2]].name)
            THEN h[contextAtoms[2]].name[1] ELSE UnknownGoal,
   constraints |-> <<>>, resources |-> <<>>]

RECURSIVE FindEvaluation(_, _, _, _)
\* evaluationLinks.find(link => link.outgoing[0].name !== 'has-context'), or
\* === for the context evaluation: [threw, found, link]; reading the name of a
\* missing first outgoing atom throws a TypeError
FindEvaluation(h, links, i, isContext) ==
  IF i > Len(links) THEN [threw |-> FALSE, found |-> FALSE, link |-> 0]
  ELSE IF Len(h[links[i]].outgoing) = 0
  THEN [threw |-> TRUE, found |-> FALSE, link |-> 0]
  ELSE IF (h[h[links[i]].outgoing[1]].name = Some(HasContextName)) = isContext
  THEN [threw |-> FALSE, found |-> TRUE, link |-> links[i]]
  ELSE FindEvaluation(h, links, i + 1, isContext)

\* x.outgoing[1].outgoing throws a TypeError: there is no second outgoing atom,
\* or it is a node
NoListAt(h, link) ==
  Len(h[link].outgoing) < 2 \/ ~h[h[link].outgoing[2]].isLink

Failure(message) == [success |-> FALSE, result |-> <<>>, error |-> Some(message)]

\* hypergraphToAgentic(atoms): a TranslationResult
HypergraphToAgentic(h, atoms) ==
  LET evaluationLinks ==
        SelectSeq(atoms, LAMBDA a : h[a].isLink /\ h[a].type = EVALUATION_LINK)
      actionEvaluation == FindEvaluation(h, evaluationLinks, 1, FALSE)
      contextEvaluation == FindEvaluation(h, evaluationLinks, 1, TRUE)
  IN IF Len(evaluationLinks) = 0 THEN Failure("No evaluation link found in hypergraph")
     ELSE IF actionEvaluation.threw THEN Failure("TypeError")
     ELSE IF ~actionEvaluation.found THEN Failure("No action evaluation found")
     ELSE IF NoListAt(h, actionEvaluation.link) THEN Failure("TypeError")
     ELSE IF contextEvaluation.threw THEN Failure("TypeError")
     ELSE IF contextEvaluation.found /\ NoListAt(h, contextEvaluation.link)
     THEN Failure("TypeError")
     ELSE LET actionNode == h[actionEvaluation.link].outgoing[1]
              parameterList == h[actionEvaluation.link].outgoing[2]
          IN [success |-> TRUE,
              result |->
                [action |-> IF Truthy(h[actionNode].name) THEN h[actionNode].name[1]
                            ELSE UnknownAction,
                 parameters |-> ExtractParameters(h, h[parameterList].outgoing, 0, <<>>),
                 context |->
                   IF contextEvaluation.found
                   THEN Some(ExtractContext(h,
                          h[h[contextEvaluation.link].outgoing[2]].outgoing))
                   ELSE None],
              error |-> None]

\* valueToSchemeExpression(value): an array is the empty one, String(null) is
\* `null`, String of any other object is `[object Object]`
ValueToSchemeExpression(value) ==
  CASE value.t = "number" -> Number(value.n)
    [] value.t = "string" -> String(value.s)
    [] value.t = "object" /\ value.s = <<"[", "]">> -> List(<<>>)
    [] value.t = "object" /\ value.s = <<"n", "u", "l", "l">> -> String(value.s)
    [] value.t = "object" ->
         String(<<"[", "o", "b", "j", "e", "c", "t", " ",
                  "O", "b", "j", "e", "c", "t", "]">>)
    [] OTHER -> String(value.s)

\* contextToSchemeExpression(context)
ContextToSchemeExpression(context) ==
  List(<<Symbol(<<"a", "g", "e", "n", "t">>), String(context.agent),
         Symbol(<<"g", "o", "a", "l">>), String(context.goal)>>
       \o (IF Len(context.constraints) > 0
           THEN <<Symbol(<<"c", "o", "n", "s", "t", "r", "a", "i", "n", "t", "s">>),
                  List([i \in 1..Len(context.constraints) |->
                          String(context.constraints[i])])>>
           ELSE <<>>)
       \o (IF Len(context.resources) > 0
           THEN <<Symbol(<<"r", "e", "s", "o", "u", "r", "c", "e", "s">>),
                  List([i \in 1..Len(context.resources) |->
                          String(context.resources[i])])>>
           ELSE <<>>))

RECURSIVE ParameterChildren(_, _)
\* the key symbol and value expression of each parameter from entry i on
ParameterChildren(parameters, i) ==
  IF i > Len(parameters) THEN <<>>
  ELSE <<Symbol(parameters[i].key), ValueToSchemeExpression(parameters[i].value)>>
       \o ParameterChildren(parameters, i + 1)

\* agenticToScheme(primitive): a TranslationResult
AgenticToScheme(primitive) ==
  [success |-> TRUE,
   result |-> List(<<Symbol(primitive.action)>>
                   \o ParameterChildren(primitive.parameters, 1)
                   \o (IF primitive.context # None
                       THEN <<Symbol(<<":", "c", "o", "n", "t", "e", "x", "t">>),
                              ContextToSchemeExpression(primitive.context[1])>>
                       ELSE <<>>)),
   error |-> None]

RECURSIVE JoinJson(_, _)
RECURSIVE SchemeExpressionToValue(_)

\* JSON text of the elements of an array value from element i on
JoinJson(values, i) ==
  IF i > Len(values) THEN <<>>
  ELSE (IF i > 1 THEN <<",">> ELSE <<>>)
       \o (IF values[i].t = "number" THEN NumberToString(values[i].n)
           ELSE IF values[i].t = "string" THEN <<"\"">> \o values[i].s \o <<"\"">>
           ELSE values[i].s)
       \o JoinJson(values, i + 1)

\* schemeExpressionToValue(expr); the array of a list is kept as its JSON text
SchemeExpressionToValue(expr) ==
  CASE expr.type = "number" -> JsNumber(expr.num)
    [] expr.type \in {"string", "symbol"} -> JsString(expr.value)
    [] OTHER ->
         JsObject(<<"[">>
                  \o JoinJson([i \in 1..Len(expr.children) |->
                                 SchemeExpressionToValue(expr.children[i])], 1)
                  \o <<"]">>)

RECURSIVE ExtractSchemeParameters(_, _, _)
\* extractSchemeParameters(paramExprs) from index i (0-based) on
ExtractSchemeParameters(paramExprs, i, parameters) ==
  IF i >= Len(paramExprs) THEN parameters
  ELSE IF i + 1 < Len(paramExprs) /\ paramExprs[i + 1].type = "symbol"
  THEN ExtractSchemeParameters(
         paramExprs, i + 2,
         SetParam(parameters, paramExprs[i + 1].value,
                  SchemeExpressionToValue(paramExprs[i + 2])))
  ELSE ExtractSchemeParameters(paramExprs, i + 2, parameters)

\* schemeToAgentic(expression): a TranslationResult
SchemeToAgentic(expression) ==
  IF expression.type # "list" \/ Len(expression.children) < 2
  THEN Failure("Scheme expression must be a list with at least 2 elements")
  ELSE IF expression.children[1].type # "symbol"
  THEN Failure("First element must be an action symbol")
  ELSE [success |-> TRUE,
        result |-> [action |-> expression.children[1].value,
                    parameters |-> ExtractSchemeParameters(
                                     Tail(expression.children), 0, <<>>),
                    context |-> None],
        error |-> None]

\* loss values are kept in units of 1/LossScale (0.05 is 120 units), so that
\* the divisions by the number of parameters are exact
LossScale == 2400

\* `key in parameters`
HasKey(parameters, key) == \E i \in 1..Len(parameters) : parameters[i].key = key

\* parameters[key] of a key that is in parameters
GetParam(parameters, key) ==
  (CHOOSE e \in Range(parameters) : e.key = key).value

\* String(value)
StringOf(value) ==
  CASE value.t = "number" -> NumberToString(value.n)
    [] value.t = "undefined" -> <<"u", "n", "d", "e", "f", "i", "n", "e", "d">>
    [] value.t = "object" /\ value.s = <<"[", "]">> -> <<>>
    [] value.t = "object" /\ value.s = <<"{", "}">> ->
         <<"[", "o", "b", "j", "e", "c", "t", " ", "O", "b", "j", "e", "c", "t", "]">>
    [] OTHER -> value.s

RECURSIVE ChangedValues(_, _, _)
\* changedValues over the original's keys from entry i on, in loss units: 1 for
\* a changed value, 0.5 for two objects with different JSON texts (the model's
\* values have a JSON text: JSON.stringify does not throw)
ChangedValues(original, reconstructed, i) ==
  IF i > Len(original) THEN 0
  ELSE ChangedValues(original, reconstructed, i + 1) +
       ( IF ~HasKey(reconstructed, original[i].key) THEN 0
         ELSE IF /\ original[i].value.t = "object"
                 /\ GetParam(reconstructed, original[i].key).t = "object"
         THEN IF original[i].value.s # GetParam(reconstructed, original[i].key).s
              THEN LossScale \div 2 ELSE 0
         ELSE IF StringOf(original[i].value)
                   # StringOf(GetParam(reconstructed, original[i].key))
         THEN LossScale ELSE 0 )

\* Math.max(n, 1)
AtLeastOne(n) == IF n < 1 THEN 1 ELSE n

\* the loss is not normalized
NoClamp(loss) == loss

\* Math.min(1, loss)
Clamp(loss) == IF loss > LossScale THEN LossScale ELSE loss

\* calculateLossMetrics(original, reconstructed)
CalculateLossMetrics(original, reconstructed) ==
  LET originalParamKeys == Len(original.parameters)
      missingParams ==
        Cardinality({i \in 1..Len(original.parameters) :
                       ~HasKey(reconstructed.parameters, original.parameters[i].key)})
      extraParams ==
        Cardinality({i \in 1..Len(reconstructed.parameters) :
                       ~HasKey(original.parameters, reconstructed.parameters[i].key)})
      both == original.context # None /\ reconstructed.context # None
      structuralLoss ==
        Clamp(((missingParams + extraParams) * LossScale)
                \div AtLeastOne(originalParamKeys)
              + (IF original.context # None /\ reconstructed.context = None
                 THEN LossScale \div 10
                 ELSE IF original.context = None /\ reconstructed.context # None
                 THEN LossScale \div 20 ELSE 0))
      semanticLoss ==
        Clamp((IF original.action # reconstructed.action THEN LossScale \div 2 ELSE 0)
              + ChangedValues(original.parameters, reconstructed.parameters, 1)
                  \div AtLeastOne(originalParamKeys)
              + (IF both /\ original.context[1].agent # reconstructed.context[1].agent
                 THEN LossScale \div 20 ELSE 0)
              + (IF both /\ original.context[1].goal # reconstructed.context[1].goal
                 THEN LossScale \div 20 ELSE 0))
  IN [structuralLoss |-> structuralLoss, semanticLoss |-> semanticLoss,
      totalLoss |-> (structuralLoss + semanticLoss) \div 2]

\* the test is valid whenever the reverse leg succeeded
RoundTripTestAnyLoss(original, forward, back) ==
  [intermediate |-> IF forward.success THEN Some(forward.result) ELSE None,
   final |-> IF forward.success /\ back.success THEN Some(back.result) ELSE None,
   isValid |-> forward.success /\ back.success,
   lossMetrics |-> IF forward.success /\ back.success
                   THEN Some(CalculateLossMetrics(original, back.result)) ELSE None]

\* roundTripTest(original), given the results of its two translation calls
RoundTripTest(original, forward, back) ==
  IF ~forward.success
  THEN [intermediate |-> None, final |-> None, isValid |-> FALSE,
        lossMetrics |-> None]
  ELSE IF ~back.success
  THEN [intermediate |-> Some(forward.result), final |-> None, isValid |-> FALSE,
        lossMetrics |-> None]
  ELSE Only({ [intermediate |-> Some(forward.result), final |-> Some(back.result),
               isValid |-> lossMetrics.totalLoss < LossScale \div 10,
               lossMetrics |-> Some(lossMetrics)] :
              lossMetrics \in {CalculateLossMetrics(original, back.result)} })

(* ------------------------------ TensorFragmentProcessor: codec -------- *)

\* a Float32Array is a sequence of floats, a float is its four bytes in memory
\* order (little-endian IEEE 754)
Zero == <<0, 0, 0, 0>>
One == <<0, 0, 128, 63>>
MinusOne == <<0, 0, 128, 191>>

\* Math.floor(x * 1000000) for the floats above
Micro(x) ==
  CASE x = Zero -> 0
    [] x = One -> 1000000
    [] x = MinusOne -> -1000000

\* a 32-bit integer is kept as its two 16-bit halves [hi, lo] (two's complement)
Int32(v) == [hi |-> (v \div 65536) % 65536, lo |-> v % 65536]

\* hash = (hash << 5) - hash + intValue; hash = hash & hash
HashStep(hash, intValue) ==
  LET v == Int32(intValue)
      lo == 31 * hash.lo + v.lo
  IN [hi |-> (31 * hash.hi + v.hi + lo \div 65536) % 65536, lo |-> lo % 65536]

RECURSIVE HashRange(_, _, _, _)
\* the loop of calculateChecksum over the elements from..to, in order (the range
\* is walked half by half)
HashRange(data, from, to, hash) ==
  IF from > to THEN hash
  ELSE IF from = to THEN HashStep(hash, Micro(data[from]))
  ELSE Only({ HashRange(data, ((from + to) \div 2) + 1, to, h) :
              h \in {HashRange(data, from, (from + to) \div 2, hash)} })

\* the loop of calculateChecksum from element i on
HashFrom(data, i, hash) == HashRange(data, i, Len(data), hash)

\* Math.abs(hash), the result no longer a signed 32-bit value
Abs32(hash) ==
  IF hash.hi < 32768 THEN hash
  ELSE IF hash.lo = 0 THEN [hi |-> 65536 - hash.hi, lo |-> 0]
  ELSE [hi |-> 65535 - hash.hi, lo |-> 65536 - hash.lo]

HexDigits ==
  <<"0", "1", "2", "3", "4", "5", "6", "7", "8", "9", "a", "b", "c", "d", "e", "f">>

RECURSIVE ToHex(_)
\* n.toString(16) of a non-negative integer
ToHex(n) ==
  IF n < 16 THEN <<HexDigits[n + 1]>>
  ELSE Append(ToHex(n \div 16), HexDigits[(n % 16) + 1])

\* the four hex digits of a 16-bit half
Hex4(n) ==
  <<HexDigits[(n \div 4096) + 1], HexDigits[((n \div 256) % 16) + 1],
    HexDigits[((n \div 16) % 16) + 1], HexDigits[(n % 16) + 1]>>

\* calculateChecksum(data)
CalculateChecksum(data) ==
  LET m == Abs32(HashFrom(data, 1, [hi |-> 0, lo |-> 0])) IN
  IF m.hi = 0 THEN ToHex(m.lo) ELSE ToHex(m.hi) \o Hex4(m.lo)

Base64Chars ==
  <<"A", "B", "C", "D", "E", "F", "G", "H", "I", "J", "K", "L", "M", "N", "O", "P",
    "Q", "R", "S", "T", "U", "V", "W", "X", "Y", "Z", "a", "b", "c", "d", "e", "f",
    "g", "h", "i", "j", "k", "l", "m", "n", "o", "p", "q", "r", "s", "t", "u", "v",
    "w", "x", "y", "z", "0", "1", "2", "3", "4", "5", "6", "7", "8", "9", "+", "/">>

\* the bytes of a Float32Array
Flatten(data) ==
  [k \in 1..(4 * Len(data)) |-> data[((k - 1) \div 4) + 1][((k - 1) % 4) + 1]]

RECURSIVE Btoa(_)
\* btoa(binary) of a byte string
Btoa(bytes) ==
  IF Len(bytes) = 0 THEN <<>>
  ELSE IF Len(bytes) = 1
  THEN <<Base64Chars[(bytes[1] \div 4) + 1], Base64Chars[((bytes[1] % 4) * 16) + 1],
         "=", "=">>
  ELSE IF Len(bytes) = 2
  THEN <<Base64Chars[(bytes[1] \div 4) + 1],
         Base64Chars[((bytes[1] % 4) * 16 + bytes[2] \div 16) + 1],
         Base64Chars[((bytes[2] % 16) * 4) + 1], "=">>
  ELSE IF Len(bytes) = 3
  THEN <<Base64Chars[(bytes[1] \div 4) + 1],
         Base64Chars[((bytes[1] % 4) * 16 + bytes[2] \div 16) + 1],
         Base64Chars[((bytes[2] % 16) * 4 + bytes[3] \div 64) + 1],
         Base64Chars[(bytes[3] % 64) + 1]>>
  \* longer strings are split at a multiple of three bytes
  ELSE Btoa(SubSeq(bytes, 1, 3 * ((Len(bytes) + 5) \div 6)))
       \o Btoa(SubSeq(bytes, 3 * ((Len(bytes) + 5) \div 6) + 1, Len(bytes)))

\* arrayToBase64(array)
ArrayToBase64(array) == Btoa(Flatten(array))

\* the value of a base64 character
Sextet(c) == (CHOOSE i \in 1..64 : Base64Chars[i] = c) - 1

RECURSIVE DecodeSextets(_)
\* the bytes of a sequence of sextets; left-over bits are dropped
DecodeSextets(chars) ==
  IF Len(chars) < 2 THEN <<>>
  ELSE IF Len(chars) = 2
  THEN <<Sextet(chars[1]) * 4 + Sextet(chars[2]) \div 16>>
  ELSE IF Len(chars) = 3
  THEN <<Sextet(chars[1]) * 4 + Sextet(chars[2]) \div 16,
         (Sextet(chars[2]) % 16) * 16 + Sextet(chars[3]) \div 4>>
  ELSE IF Len(chars) = 4
  THEN <<Sextet(chars[1]) * 4 + Sextet(chars[2]) \div 16,
         (Sextet(chars[2]) % 16) * 16 + Sextet(chars[3]) \div 4,
         (Sextet(chars[3]) % 4) * 64 + Sextet(chars[4])>>
  \* longer sequences are split at a multiple of four sextets
  ELSE DecodeSextets(SubSeq(chars, 1, 4 * ((Len(chars) + 7) \div 8)))
       \o DecodeSextets(SubSeq(chars, 4 * ((Len(chars) + 7) \div 8) + 1, Len(chars)))

\* the text without its padding: up to two trailing "=" of a text whose length
\* is a multiple of four
Unpadded(text) ==
  IF Len(text) % 4 # 0 \/ Len(text) = 0 \/ text[Len(text)] # "=" THEN text
  ELSE IF text[Len(text) - 1] = "=" THEN SubSeq(text, 1, Len(text) - 2)
  ELSE SubSeq(text, 1, Len(text) - 1)

\* atob(base64): [threw, bytes]
Atob(text) ==
  LET chars == Unpadded(text) IN
  IF Len(chars) % 4 = 1 \/ \E i \in 1..Len(chars) : chars[i] \notin Range(Base64Chars)
  THEN [threw |-> TRUE, bytes |-> <<>>]
  ELSE [threw |-> FALSE, bytes |-> DecodeSextets(chars)]

\* base64ToArray(base64): [threw, array]; a byte length that is not a multiple
\* of four makes `new Float32Array(bytes.buffer)` throw a RangeError
Base64ToArray(base64) ==
  LET r == Atob(base64) IN
  IF r.threw \/ Len(r.bytes) % 4 # 0 THEN [threw |-> TRUE, array |-> <<>>]
  ELSE [threw |-> FALSE,
        array |-> [i \in 1..(Len(r.bytes) \div 4) |->
                     SubSeq(r.bytes, 4 * i - 3, 4 * i)]]

(* ------------------------------ TensorFragmentProcessor --------------- *)

\* TensorFragmentConfig.maxTensorSize
MaxTensorSize == 1000000
CurrentVersion == <<"1", ".", "2", ".", "0">>

\* the validation stops at the first violated rule
ValidateTensorShapeFirstOnly(shape) ==
  IF shape.modality <= 0
  THEN <<"Modality dimension must be a positive integer">>
  ELSE IF shape.depth <= 0
  THEN <<"Depth dimension must be a positive integer">>
  ELSE IF shape.context <= 0
  THEN <<"Context dimension must be a positive integer">>
  ELSE IF shape.salience <= 0
  THEN <<"Salience dimension must be a positive integer">>
  ELSE IF shape.autonomy_index <= 0
  THEN <<"Autonomy index dimension must be a positive integer">>
  ELSE IF shape.modality > 1000
  THEN <<"Modality dimension exceeds reasonable bounds (max 1000)">>
  ELSE IF shape.depth > 100
  THEN <<"Depth dimension exceeds reasonable bounds (max 100)">>
  ELSE IF shape.context > 10000
  THEN <<"Context dimension exceeds reasonable bounds (max 10000)">>
  ELSE IF shape.salience > 1000
  THEN <<"Salience dimension exceeds reasonable bounds (max 1000)">>
  ELSE IF shape.autonomy_index > 100
  THEN <<"Autonomy index exceeds reasonable bounds (max 100)">>
  ELSE <<>>

\* validateTensorShape(shape), for integer dimensions: the validation errors
ValidateTensorShape(shape) ==
  (IF shape.modality <= 0
   THEN <<"Modality dimension must be a positive integer">> ELSE <<>>)
  \o (IF shape.depth <= 0
      THEN <<"Depth dimension must be a positive integer">> ELSE <<>>)
  \o (IF shape.context <= 0
      THEN <<"Context dimension must be a positive integer">> ELSE <<>>)
  \o (IF shape.salience <= 0
      THEN <<"Salience dimension must be a positive integer">> ELSE <<>>)
  \o (IF shape.autonomy_index <= 0
      THEN <<"Autonomy index dimension must be a positive integer">> ELSE <<>>)
  \o (IF shape.modality > 1000
      THEN <<"Modality dimension exceeds reasonable bounds (max 1000)">> ELSE <<>>)
  \o (IF shape.depth > 100
      THEN <<"Depth dimension exceeds reasonable bounds (max 100)">> ELSE <<>>)
  \o (IF shape.context > 10000
      THEN <<"Context dimension exceeds reasonable bounds (max 10000)">> ELSE <<>>)
  \o (IF shape.salience > 1000
      THEN <<"Salience dimension exceeds reasonable bounds (max 1000)">> ELSE <<>>)
  \o (IF shape.autonomy_index > 100
      THEN <<"Autonomy index exceeds reasonable bounds (max 100)">> ELSE <<>>)

\* validateTensorShape(shape): the TensorFragmentResult<boolean> it returns
ValidationResult(shape) ==
  IF Len(ValidateTensorShape(shape)) > 0
  THEN [success |-> FALSE, result |-> None,
        error |-> Some("Tensor shape validation failed"),
        validationErrors |-> ValidateTensorShape(shape)]
  ELSE [success |-> TRUE, result |-> Some(TRUE), error |-> None,
        validationErrors |-> <<>>]

\* the last dimension is left out of the product
CalculateTensorSizeFourDimensions(shape) ==
  shape.modality * shape.depth * shape.context * shape.salience

\* calculateTensorSize(shape)
CalculateTensorSize(shape) ==
  shape.modality * shape.depth * shape.context * shape.salience * shape.autonomy_index

RECURSIVE FactorsOfTwo(_, _)
\* while (remaining % 2 === 0): [remaining, factors]
FactorsOfTwo(remaining, factors) ==
  IF remaining % 2 = 0 THEN FactorsOfTwo(remaining \div 2, Append(factors, 2))
  ELSE [remaining |-> remaining, factors |-> factors]

RECURSIVE OddFactorsOnce(_, _, _)
\* the inner loop is an `if`: each odd factor is divided out once
OddFactorsOnce(i, remaining, factors) ==
  IF i * i > remaining THEN [remaining |-> remaining, factors |-> factors]
  ELSE IF remaining % i = 0
  THEN OddFactorsOnce(i + 2, remaining \div i, Append(factors, i))
  ELSE OddFactorsOnce(i + 2, remaining, factors)

RECURSIVE OddFactors(_, _, _)
\* for (i = 3; i * i <= remaining; i += 2) with its inner while: [remaining, factors]
OddFactors(i, remaining, factors) ==
  IF i * i > remaining THEN [remaining |-> remaining, factors |-> factors]
  ELSE IF remaining % i = 0 THEN OddFactors(i, remaining \div i, Append(factors, i))
  ELSE OddFactors(i + 2, remaining, factors)

\* generatePrimeFactorization(n) past the cache lookup, n > 0: the factors
ComputeFactors(n) ==
  Only({ Only({ IF odd.remaining > 2 THEN Append(odd.factors, odd.remaining)
                ELSE odd.factors :
                odd \in {OddFactors(3, two.remaining, two.factors)} }) :
         two \in {FactorsOfTwo(n, <<>>)} })

\* primeCache, a Map<number, number[]>, as the set of its [n, factors] entries
CacheHas(cache, n) == \E e \in cache : e.n = n
CacheGet(cache, n) == (CHOOSE e \in cache : e.n = n).factors

\* generatePrimeFactorization(n) on the processor's cache: [factors, cache]
GeneratePrimeFactorization(cache, n) ==
  IF CacheHas(cache, n) THEN [factors |-> CacheGet(cache, n), cache |-> cache]
  ELSE Only({ [factors |-> factors,
               cache |-> cache \cup {[n |-> n, factors |-> factors]}] :
              factors \in {ComputeFactors(n)} })

RECURSIVE PartitionsOverlapping(_, _, _, _)
\* currentIndex moves on by one less than the partition size
PartitionsOverlapping(factors, i, tensorSize, currentIndex) ==
  IF i > Len(factors) THEN <<>>
  ELSE <<[factor |-> factors[i], startIndex |-> currentIndex,
          endIndex |-> currentIndex + (tensorSize \div factors[i]) - 1]>>
       \o PartitionsOverlapping(factors, i + 1, tensorSize,
                                currentIndex + (tensorSize \div factors[i]) - 1)

RECURSIVE Partitions(_, _, _, _)
\* the partitions of generatePrimeFactorizationMapping from factor i on
Partitions(factors, i, tensorSize, currentIndex) ==
  IF i > Len(factors) THEN <<>>
  ELSE <<[factor |-> factors[i], startIndex |-> currentIndex,
          endIndex |-> currentIndex + (tensorSize \div factors[i]) - 1]>>
       \o Partitions(factors, i + 1, tensorSize,
                     currentIndex + (tensorSize \div factors[i]))

\* generatePrimeFactorizationMapping(tensorSize, strategy): [mapping, cache]
GeneratePrimeFactorizationMapping(cache, tensorSize, strategy) ==
  Only({ [mapping |-> [originalSize |-> tensorSize, factors |-> r.factors,
                       distributionStrategy |-> strategy,
                       partitions |-> Partitions(r.factors, 1, tensorSize, 0)],
          cache |-> r.cache] :
         r \in {GeneratePrimeFactorization(cache, tensorSize)} })

NoFragment == [success |-> FALSE, result |-> None, error |-> None,
               validationErrors |-> <<>>]

\* the processor's cache after createTensorFragment(shape, data)
CacheAfterCreate(shape, cache) ==
  IF ValidateTensorShape(shape) # <<>> \/ CalculateTensorSize(shape) > MaxTensorSize
  THEN cache
  ELSE GeneratePrimeFactorization(cache, CalculateTensorSize(shape)).cache

\* createTensorFragment(shape, data) at time `now`, the new fragment's id chosen
\* by generateId, on the processor's cache: a TensorFragmentResult (performance
\* metrics left out)
ProcessorCreate(shape, data, now, id, cache) ==
  IF ValidateTensorShape(shape) # <<>>
  THEN [NoFragment EXCEPT !.error = Some("Tensor shape validation failed"),
                          !.validationErrors = ValidateTensorShape(shape)]
  ELSE IF CalculateTensorSize(shape) > MaxTensorSize
  THEN [NoFragment EXCEPT !.error = Some("Tensor size exceeds maximum")]
  ELSE LET tensorData == IF data # None THEN data[1]
                         ELSE [i \in 1..CalculateTensorSize(shape) |-> Zero]
       IN [NoFragment EXCEPT
             !.success = TRUE,
             !.result = Some([id |-> id, shape |-> shape, data |-> tensorData,
                              primeFactors |->
                                GeneratePrimeFactorization(
                                  cache, CalculateTensorSize(shape)).factors,
                              metadata |->
                                [created |-> now, lastModified |-> now,
                                 version |-> CurrentVersion, encoding |-> "float32",
                                 checksum |-> Some(CalculateChecksum(tensorData))]])]

\* the factor list is left out of the serialized fragment
ProcessorSerializeNoFactors(fragment) ==
  [version |-> fragment.metadata.version, shape |-> fragment.shape,
   data |-> ArrayToBase64(fragment.data), primeFactors |-> <<>>,
   metadata |-> fragment.metadata]

\* serializeTensorFragment(fragment): the serialized string, as its JSON tree
ProcessorSerialize(fragment) ==
  [version |-> fragment.metadata.version, shape |-> fragment.shape,
   data |-> ArrayToBase64(fragment.data), primeFactors |-> fragment.primeFactors,
   metadata |-> fragment.metadata]

\* isVersionCompatible(version)
IsVersionCompatible(version) ==
  \/ version = CurrentVersion
  \/ Len(version) >= 4 /\ SubSeq(version, 1, 4) = <<"1", ".", "2", ".">>

\* `if (parsed.metadata.checksum)`: the field is there and not the empty string
ChecksumPresent(metadata) == metadata.checksum # None /\ metadata.checksum[1] # <<>>

\* deserializeTensorFragment(serializedData) at time `now`
ProcessorDeserialize(parsed, now, id) ==
  IF ~IsVersionCompatible(parsed.version)
  THEN [NoFragment EXCEPT !.error = Some("Incompatible version")]
  ELSE IF Base64ToArray(parsed.data).threw
  THEN [NoFragment EXCEPT !.error = Some("Deserialization failed")]
  ELSE IF /\ ChecksumPresent(parsed.metadata)
          /\ CalculateChecksum(Base64ToArray(parsed.data).array)
               # parsed.metadata.checksum[1]
  THEN [NoFragment EXCEPT
          !.error = Some("Checksum validation failed - data may be corrupted")]
  ELSE [NoFragment EXCEPT
          !.success = TRUE,
          !.result = Some([id |-> id, shape |-> parsed.shape,
                           data |-> Base64ToArray(parsed.data).array,
                           primeFactors |-> parsed.primeFactors,
                           metadata |-> [parsed.metadata EXCEPT !.lastModified = now]])]

\* this.tensorFragments.set(result.id, result) when the processor succeeded: an
\* entry with that id is replaced, any other id is a new entry
StoreFragment(fragments, r) ==
  IF ~(r.success /\ r.result # None) THEN fragments
  ELSE IF \E i \in 1..Len(fragments) : fragments[i].id = r.result[1].id
  THEN [i \in 1..Len(fragments) |->
          IF fragments[i].id = r.result[1].id THEN r.result[1] ELSE fragments[i]]
  ELSE Append(fragments, r.result[1])

(* ------------------------------ inputs -------------------------------- *)

Weak == Some([strength |-> 0, confidence |-> 9])        \* below the threshold
AtThreshold == Some([strength |-> 1, confidence |-> 9]) \* not below it
\* createNode's (name, truthValue) arguments
NodeInputs == {<<None, None>>, <<Some(<<"a">>), Weak>>,
               <<Some(<<"b">>), AtThreshold>>}
LinkTruthValues == {None, Weak}
StoreNodeTypes == {CONCEPT_NODE}
StoreLinkTypes == {LIST_LINK}
\* the constructor's argument: small capacities, so that a behaviour fills the store
Configs == [maxAtoms : {1, 2}, enableGarbageCollection : BOOLEAN,
            truthValueThreshold : {TruthValueThreshold}]

\* the characters of the Scheme texts
Alphabet == {"(", ")", " ", "\"", "\\", "a", "0"}
\* keyword-headed lists, and a list headed by a string with a keyword's text
KeywordTexts ==
  { <<"(", "l", "a", "m", "b", "d", "a", " ", "a", ")">>,
    <<"(", "a", "p", "p", "l", "y", " ", "a", " ", "0", ")">>,
    <<"(", "i", "n", "h", "e", "r", "i", "t", "a", "n", "c", "e", " ", "a", " ",
      "\"", "a", "\"", ")">>,
    <<"(", "e", "v", "a", "l", "u", "a", "t", "i", "o", "n", " ", "a", " ",
      "(", "a", ")", ")">>,
    <<"(", "\"", "l", "a", "m", "b", "d", "a", "\"", " ", "a", ")">> }
Texts == SeqsUpTo(Alphabet, MaxTextLen) \cup KeywordTexts

NoResult == [success |-> FALSE, result |-> <<>>, error |-> None]
SchemeIdle == [pc |-> "idle", texts |-> <<>>, parsed |-> NoResult,
               atoms |-> NoResult, back |-> NoResult, backText |-> <<>>,
               removed |-> 0]

\* atom objects a caller hands to atomsToScheme: three atoms, each a named
\* node or a list link over any of the three, itself included
GivenIds == 1..3
GivenNames == << <<"a">>, <<"b">>, <<"c">> >>
GivenAtoms(id) ==
  {[id |-> id, type |-> CONCEPT_NODE, name |-> Some(GivenNames[id]),
    truthValue |-> None, confidence |-> 10, isLink |-> FALSE, outgoing |-> <<>>,
    value |-> None]}
  \cup {[id |-> id, type |-> LIST_LINK, name |-> None, truthValue |-> None,
        confidence |-> 10, isLink |-> TRUE, outgoing |-> outgoing,
        value |-> None] : outgoing \in SeqsUpTo(GivenIds, MaxOutgoing)}
GivenHeaps == {h \in [GivenIds -> UNION {GivenAtoms(id) : id \in GivenIds}] :
                 \A id \in GivenIds : h[id].id = id}
\* the array given to atomsToScheme: any of the atoms, in any order
GivenArrays ==
  {atoms \in SeqsUpTo(GivenIds, 3) :
     \A i, j \in 1..Len(atoms) : i # j => atoms[i] # atoms[j]}

\* primitives: action strings, parameter keys and values, contexts
ActionNames == {<<>>, <<"a">>, HasContextName}
ParamKeys == {<<>>, <<"k">>, <<"j">>}
ParamValues ==
  { JsNumber(0), JsNumber(10), JsString(<<>>), JsString(<<"a">>),
    JsString(<<"n", "u", "l", "l">>), JsString(<<"[", "]">>),
    JsObject(<<"[", "]">>) }
Contexts ==
  { None,
    Some([agent |-> <<"g">>, goal |-> <<>>, constraints |-> << <<"c">> >>,
          resources |-> <<>>]),
    Some([agent |-> <<"g">>, goal |-> <<"o">>, constraints |-> <<>>,
          resources |-> << <<"r">> >>]) }
\* Object.entries of a parameters object: distinct keys
ParameterEntries ==
  { p \in SeqsUpTo([key : ParamKeys, value : ParamValues], MaxParams) :
      \A i, j \in 1..Len(p) : i # j => p[i].key # p[j].key }
Primitives == [action : ActionNames, parameters : ParameterEntries, context : Contexts]

\* the translator's store: the default one, and one that fills up
AgenticConfigs ==
  {DefaultConfig,
   [maxAtoms |-> 2, enableGarbageCollection |-> FALSE,
    truthValueThreshold |-> TruthValueThreshold]}

\* the primitives whose losses are measured pairwise
LossValues == {JsNumber(0), JsString(<<"a">>), JsObject(<<"[", "]">>),
               JsObject(<<"n", "u", "l", "l">>)}
LossPrimitives ==
  [action : {<<>>, <<"a">>},
   parameters : { p \in SeqsUpTo([key : {<<"k">>, <<"j">>}, value : LossValues],
                                 MaxParams) :
                    \A i, j \in 1..Len(p) : i # j => p[i].key # p[j].key },
   context : Contexts]

NoTest == [intermediate |-> None, final |-> None, isValid |-> FALSE,
           lossMetrics |-> None]

AgenticIdle == [pc |-> "idle", primitive |-> <<>>, atoms |-> NoResult,
                back |-> NoResult, removed |-> 0, test |-> NoTest,
                expression |-> NoResult, viaScheme |-> NoResult]

\* tensor shapes: sizes 1, 2, 4 and 240, a zero dimension, a dimension beyond
\* its bound, and a size beyond maxTensorSize
Shape(m, d, c, sa, a) ==
  [modality |-> m, depth |-> d, context |-> c, salience |-> sa, autonomy_index |-> a]
TensorShapes ==
  { Shape(1, 1, 1, 1, 1), Shape(1, 1, 1, 1, 2), Shape(2, 1, 1, 2, 1),
    Shape(2, 3, 4, 5, 2), Shape(0, 1, 1, 1, 1), Shape(1, 101, 1, 1, 1), Shape(1000, 100, 11, 1, 1) }
\* the optional data argument of createTensorFragment
DataInputs == {None} \cup {Some(d) : d \in SeqsUpTo({Zero, One, MinusOne}, MaxData)}
\* what a caller writes over the checksum of a serialized fragment: nothing
\* (the field deleted), the empty string, other checksums
TamperedChecksums == {None, Some(<<>>), Some(<<"0">>), Some(<<"f", "f">>)}

\* the shapes given to validateTensorShape: every dimension below, at and beyond
\* the ends of its range
BoundaryValues(bound) == {-1, 0, 1, bound, bound + 1}
BoundaryShapes ==
  { Shape(m, d, c, sa, a) :
      m \in BoundaryValues(1000), d \in BoundaryValues(100),
      c \in BoundaryValues(10000), sa \in BoundaryValues(1000),
      a \in BoundaryValues(100) }

\* the sizes given to generatePrimeFactorizationMapping, and its strategies
TensorSizes == 1..MaxSize
Strategies == {"row-wise", "column-wise", "block-wise"}

TensorIdle == [pc |-> "idle", now |-> 0, nextId |-> 1, fragments |-> <<>>,
               request |-> <<>>, created |-> NoFragment, serialized |-> None,
               tampered |-> FALSE, restored |-> NoFragment,
               primeCache |-> {}, mapping |-> None, hit |-> FALSE,
               validation |-> None, division |-> None]

\* the arguments of the getters: types and names, stored or not
QueryTypes == {CONCEPT_NODE, LIST_LINK, PREDICATE_NODE}
QueryNames == {<<>>, <<"a">>, <<"b">>, <<"c">>}

NoCall == [op |-> "none", outcome |-> "returned", error |-> None, id |-> 0,
           ok |-> TRUE, built |-> TRUE]

(* ------------------------------ actions ------------------------------- *)

Init ==
  /\ store = EmptyStore
  /\ heap = <<>>
  /\ config \in Configs
  /\ built = TRUE
  /\ last = NoCall
  /\ scheme = SchemeIdle
  /\ agentic = AgenticIdle
  /\ tensor = TensorIdle

CreateNode ==
  /\ Len(heap) < MaxCreated
  /\ \E type \in StoreNodeTypes, in \in NodeInputs :
       LET r == Create(store, heap, config,
                       NewNode(heap, type, in[1], in[2], None)) IN
       /\ store' = r.st
       /\ heap' = r.h
       /\ last' = [op |-> "createNode",
                   outcome |-> IF r.threw THEN "threw" ELSE "returned",
                   error |-> r.error, id |-> r.id, ok |-> ~r.threw, built |-> built]
  /\ UNCHANGED <<config, built, scheme, agentic, tensor>>

CreateLink ==
  /\ Len(heap) < MaxCreated
  /\ \E type \in StoreLinkTypes, tv \in LinkTruthValues,
        outgoing \in IncreasingSeqs(1..Len(heap), MaxOutgoing) :
       LET r == Create(store, heap, config, NewLink(heap, type, outgoing, tv)) IN
       /\ store' = r.st
       /\ heap' = r.h
       /\ last' = [op |-> "createLink",
                   outcome |-> IF r.threw THEN "threw" ELSE "returned",
                   error |-> r.error, id |-> r.id, ok |-> ~r.threw, built |-> built]
  /\ UNCHANGED <<config, built, scheme, agentic, tensor>>

Remove ==
  /\ \E id \in 1..Len(heap) :
       /\ store' = RemoveAtom(store, heap, id)
       /\ last' = [op |-> "removeAtom", outcome |-> "returned", error |-> None,
                   id |-> id,
                   ok |-> Has(store, id), built |-> built]
  /\ built' = FALSE
  /\ UNCHANGED <<heap, config, scheme, agentic, tensor>>

Next == CreateNode \/ CreateLink \/ Remove

Spec == Init /\ [][Next]_vars

(* ------------------------------ SchemeAdapter session ----------------- *)

InitScheme ==
  /\ store = EmptyStore
  /\ heap = <<>>
  /\ config = DefaultConfig
  /\ built = TRUE
  /\ last = NoCall
  /\ \E text \in Texts : scheme = [SchemeIdle EXCEPT !.pc = "start", !.texts = <<text>>]
  /\ agentic = AgenticIdle
  /\ tensor = TensorIdle

\* parseScheme of the newest text
ParseSchemeCall ==
  /\ scheme.pc = "start"
  /\ scheme' = [scheme EXCEPT !.pc = "parsed",
                              !.parsed = ParseScheme(scheme.texts[Len(scheme.texts)])]
  /\ UNCHANGED <<store, heap, config, built, last, agentic, tensor>>

\* expressionToString of the parsed tree; the text is parsed again
PrintParsed ==
  /\ scheme.pc = "parsed"
  /\ scheme.parsed.success
  /\ Len(scheme.texts) < 3
  /\ scheme' = [scheme EXCEPT !.pc = "start",
                              !.texts = Append(@, ExpressionToString(scheme.parsed.result))]
  /\ UNCHANGED <<store, heap, config, built, last, agentic, tensor>>

\* schemeToAtoms of the tree parsed from the first text
SchemeToAtomsCall ==
  /\ scheme.pc = "parsed"
  /\ scheme.parsed.success
  /\ Len(scheme.texts) = 1
  /\ \E r \in {SchemeToAtoms(store, heap, config, AdapterConfig, scheme.parsed.result)} :
       /\ store' = r.st
       /\ heap' = r.h
       /\ scheme' = [scheme EXCEPT !.pc = "atoms",
                       !.atoms = [success |-> r.success, result |-> r.result,
                                  error |-> r.error]]
  /\ UNCHANGED <<config, built, last, agentic, tensor>>

\* the caller removes one of the atoms from the store before converting back
RemoveConverted ==
  /\ scheme.pc = "atoms"
  /\ scheme.removed = 0
  /\ \E id \in Range(scheme.atoms.result) :
       /\ store' = RemoveAtom(store, heap, id)
       /\ scheme' = [scheme EXCEPT !.removed = id]
  /\ UNCHANGED <<heap, config, built, last, agentic, tensor>>

\* atomsToScheme of the atom array
AtomsToSchemeCall ==
  /\ scheme.pc = "atoms"
  /\ scheme.atoms.success
  /\ scheme' = [scheme EXCEPT !.pc = "back",
                              !.back = AtomsToScheme(heap, scheme.atoms.result)]
  /\ UNCHANGED <<store, heap, config, built, last, agentic, tensor>>

\* expressionToString of the tree that came back
PrintBack ==
  /\ scheme.pc = "back"
  /\ scheme.back.success
  /\ scheme' = [scheme EXCEPT !.pc = "done",
                              !.backText = ExpressionToString(scheme.back.result)]
  /\ UNCHANGED <<store, heap, config, built, last, agentic, tensor>>

NextScheme ==
  \/ ParseSchemeCall \/ PrintParsed \/ SchemeToAtomsCall
  \/ RemoveConverted \/ AtomsToSchemeCall \/ PrintBack

SpecScheme == InitScheme /\ [][NextScheme]_vars

(* ------------------------------ atomsToScheme on given atoms ---------- *)

\* the caller holds atom objects and an array of them
InitRoot ==
  /\ store = EmptyStore
  /\ heap \in GivenHeaps
  /\ config = DefaultConfig
  /\ built = TRUE
  /\ last = NoCall
  /\ \E atoms \in GivenArrays :
       scheme = [SchemeIdle EXCEPT !.pc = "atoms",
                                   !.atoms = [success |-> TRUE, result |-> atoms,
                                              error |-> None]]
  /\ agentic = AgenticIdle
  /\ tensor = TensorIdle

NextRoot == AtomsToSchemeCall

SpecRoot == InitRoot /\ [][NextRoot]_vars

(* ------------------------------ AgenticTranslator session ------------- *)

InitAgentic ==
  /\ store = EmptyStore
  /\ heap = <<>>
  /\ config \in AgenticConfigs
  /\ built = TRUE
  /\ last = NoCall
  /\ scheme = SchemeIdle
  /\ \E primitive \in Primitives :
       agentic = [AgenticIdle EXCEPT !.pc = "start", !.primitive = primitive]
  /\ tensor = TensorIdle

\* agenticToHypergraph of the primitive
AgenticToHypergraphCall ==
  /\ agentic.pc = "start"
  /\ \E r \in {AgenticToHypergraph(store, heap, config, agentic.primitive)} :
       /\ store' = r.st
       /\ heap' = r.h
       /\ agentic' = [agentic EXCEPT !.pc = "atoms",
                        !.atoms = [success |-> r.success, result |-> r.result,
                                   error |-> r.error]]
  /\ UNCHANGED <<config, built, last, scheme, tensor>>

\* the caller removes one of the atoms from the store before converting back
RemoveTranslated ==
  /\ agentic.pc = "atoms"
  /\ agentic.removed = 0
  /\ \E id \in Range(agentic.atoms.result) :
       /\ store' = RemoveAtom(store, heap, id)
       /\ agentic' = [agentic EXCEPT !.removed = id]
  /\ UNCHANGED <<heap, config, built, last, scheme, tensor>>

\* hypergraphToAgentic of the atom array
HypergraphToAgenticCall ==
  /\ agentic.pc = "atoms"
  /\ agentic.atoms.success
  /\ agentic' = [agentic EXCEPT !.pc = "back",
                   !.back = HypergraphToAgentic(heap, agentic.atoms.result)]
  /\ UNCHANGED <<store, heap, config, built, last, scheme, tensor>>

\* roundTripTest of the primitive: both translations and the loss metrics
RoundTripTestCall ==
  /\ agentic.pc = "start"
  /\ \E forward \in {AgenticToHypergraph(store, heap, config, agentic.primitive)} :
       \E back \in {IF forward.success
                    THEN HypergraphToAgentic(forward.h, forward.result)
                    ELSE NoResult} :
         /\ store' = forward.st
         /\ heap' = forward.h
         /\ agentic' = [agentic EXCEPT !.pc = "tested",
                          !.atoms = [success |-> forward.success,
                                     result |-> forward.result,
                                     error |-> forward.error],
                          !.back = back,
                          !.test = RoundTripTest(agentic.primitive, forward, back)]
  /\ UNCHANGED <<config, built, last, scheme, tensor>>

\* schemeToAgentic of agenticToScheme's expression
SchemeRoundTripCall ==
  /\ agentic.pc = "start"
  /\ \E forward \in {AgenticToScheme(agentic.primitive)} :
       agentic' = [agentic EXCEPT !.pc = "scheme",
                                  !.expression = forward,
                                  !.viaScheme = SchemeToAgentic(forward.result)]
  /\ UNCHANGED <<store, heap, config, built, last, scheme, tensor>>

NextAgentic ==
  \/ AgenticToHypergraphCall \/ RemoveTranslated \/ HypergraphToAgenticCall
  \/ RoundTripTestCall \/ SchemeRoundTripCall

SpecAgentic == InitAgentic /\ [][NextAgentic]_vars

(* ------------------------------ loss metric session ------------------- *)

\* an original and a reconstructed primitive
InitLoss ==
  /\ store = EmptyStore
  /\ heap = <<>>
  /\ config = DefaultConfig
  /\ built = TRUE
  /\ last = NoCall
  /\ scheme = SchemeIdle
  /\ \E original \in LossPrimitives, reconstructed \in LossPrimitives :
       agentic = [AgenticIdle EXCEPT !.pc = "pair", !.primitive = original,
                    !.back = [success |-> TRUE, result |-> reconstructed,
                              error |-> None]]
  /\ tensor = TensorIdle

\* calculateLossMetrics(original, reconstructed)
CalculateLossMetricsCall ==
  /\ agentic.pc = "pair"
  /\ agentic' = [agentic EXCEPT !.pc = "measured",
                   !.test.lossMetrics =
                     Some(CalculateLossMetrics(agentic.primitive, agentic.back.result))]
  /\ UNCHANGED <<store, heap, config, built, last, scheme, tensor>>

NextLoss == CalculateLossMetricsCall

SpecLoss == InitLoss /\ [][NextLoss]_vars

(* ------------------------------ tensor fragment session --------------- *)

InitTensor ==
  /\ store = EmptyStore
  /\ heap = <<>>
  /\ config = DefaultConfig
  /\ built = TRUE
  /\ last = NoCall
  /\ scheme = SchemeIdle
  /\ agentic = AgenticIdle
  /\ tensor = [TensorIdle EXCEPT !.pc = "start"]

\* Date.now() moves on
Tick ==
  /\ tensor.pc # "idle"
  /\ tensor.now < MaxNow
  /\ tensor' = [tensor EXCEPT !.now = @ + 1]
  /\ UNCHANGED <<store, heap, config, built, last, scheme, agentic>>

\* AtomSpace.createTensorFragment(shape, data)
CreateTensorFragmentCall ==
  /\ tensor.pc = "start"
  /\ \E shape \in TensorShapes, data \in DataInputs :
       \E r \in {ProcessorCreate(shape, data, tensor.now, tensor.nextId,
                                 tensor.primeCache)} :
         tensor' = [tensor EXCEPT !.pc = "created",
                                  !.nextId = @ + 1,
                                  !.primeCache = CacheAfterCreate(shape, @),
                                  !.request = [shape |-> shape, data |-> data],
                                  !.created = r,
                                  !.fragments = StoreFragment(@, r)]
  /\ UNCHANGED <<store, heap, config, built, last, scheme, agentic>>

\* AtomSpace.serializeTensorFragment(id) of a stored fragment
SerializeTensorFragmentCall ==
  /\ tensor.pc = "created"
  /\ \E i \in 1..Len(tensor.fragments) :
       tensor' = [tensor EXCEPT !.pc = "serialized",
                                !.serialized = Some(ProcessorSerialize(tensor.fragments[i]))]
  /\ UNCHANGED <<store, heap, config, built, last, scheme, agentic>>

\* the caller changes the checksum field of the serialized text to another value
TamperChecksum ==
  /\ tensor.pc = "serialized"
  /\ ~tensor.tampered
  /\ \E checksum \in TamperedChecksums :
       /\ checksum # tensor.serialized[1].metadata.checksum
       /\ tensor' = [tensor EXCEPT !.tampered = TRUE,
                                   !.serialized[1].metadata.checksum = checksum]
  /\ UNCHANGED <<store, heap, config, built, last, scheme, agentic>>

\* AtomSpace.deserializeTensorFragment(serializedData)
DeserializeTensorFragmentCall ==
  /\ tensor.pc = "serialized"
  /\ \E r \in {ProcessorDeserialize(tensor.serialized[1], tensor.now, tensor.nextId)} :
       tensor' = [tensor EXCEPT !.pc = "restored",
                                !.nextId = @ + 1,
                                !.restored = r,
                                !.fragments = StoreFragment(@, r)]
  /\ UNCHANGED <<store, heap, config, built, last, scheme, agentic>>

NextTensor ==
  \/ Tick \/ CreateTensorFragmentCall \/ SerializeTensorFragmentCall
  \/ TamperChecksum \/ DeserializeTensorFragmentCall

SpecTensor == InitTensor /\ [][NextTensor]_vars

(* ------------------------------ prime factorization session ---------- *)

InitFactor ==
  /\ store = EmptyStore
  /\ heap = <<>>
  /\ config = DefaultConfig
  /\ built = TRUE
  /\ last = NoCall
  /\ scheme = SchemeIdle
  /\ agentic = AgenticIdle
  /\ tensor = [TensorIdle EXCEPT !.pc = "factor"]

\* generatePrimeFactorizationMapping(tensorSize, strategy) of one processor
GeneratePrimeFactorizationMappingCall ==
  /\ tensor.pc = "factor"
  /\ \E tensorSize \in TensorSizes, strategy \in Strategies :
       /\ CacheHas(tensor.primeCache, tensorSize)
            \/ Cardinality(tensor.primeCache) < MaxCached
       /\ \E r \in {GeneratePrimeFactorizationMapping(tensor.primeCache, tensorSize,
                                                       strategy)} :
            tensor' = [tensor EXCEPT !.primeCache = r.cache,
                                     !.mapping = Some(r.mapping),
                                     !.hit = CacheHas(tensor.primeCache, tensorSize)]
  /\ UNCHANGED <<store, heap, config, built, last, scheme, agentic>>

NextFactor == GeneratePrimeFactorizationMappingCall

SpecFactor == InitFactor /\ [][NextFactor]_vars

(* ------------------------------ trial division, step by step --------- *)

\* generatePrimeFactorization(n) on an empty cache, at the head of its first
\* loop: the locals n, remaining, i and factors and the loop the call is in
InitDivision ==
  /\ store = EmptyStore
  /\ heap = <<>>
  /\ config = DefaultConfig
  /\ built = TRUE
  /\ last = NoCall
  /\ scheme = SchemeIdle
  /\ agentic = AgenticIdle
  /\ \E n \in 0..MaxSize :
       tensor = [TensorIdle EXCEPT
                   !.pc = "division",
                   !.division = Some([n |-> n, remaining |-> n, i |-> 3,
                                      factors |-> <<>>, loop |-> "twos"])]

\* one iteration of `while (remaining % 2 === 0)`
DivideByTwo ==
  /\ tensor.pc = "division"
  /\ tensor.division[1].loop = "twos"
  /\ tensor.division[1].remaining % 2 = 0
  /\ Len(tensor.division[1].factors) < MaxFactors
  /\ tensor' = [tensor EXCEPT !.division[1].factors = Append(@, 2),
                              !.division[1].remaining = @ \div 2]
  /\ UNCHANGED <<store, heap, config, built, last, scheme, agentic>>

\* the first loop ends and `for (let i = 3; ...)` begins
LeaveTwos ==
  /\ tensor.pc = "division"
  /\ tensor.division[1].loop = "twos"
  /\ tensor.division[1].remaining % 2 # 0
  /\ tensor' = [tensor EXCEPT !.division[1].loop = "odds", !.division[1].i = 3]
  /\ UNCHANGED <<store, heap, config, built, last, scheme, agentic>>

\* inside the for loop: one iteration of `while (remaining % i === 0)`, or
\* `i += 2` when that loop ends
OddStep ==
  /\ tensor.pc = "division"
  /\ tensor.division[1].loop = "odds"
  /\ tensor.division[1].i * tensor.division[1].i <= tensor.division[1].remaining
  /\ Len(tensor.division[1].factors) < MaxFactors
  /\ tensor' = IF tensor.division[1].remaining % tensor.division[1].i = 0
               THEN [tensor EXCEPT
                       !.division[1].factors = Append(@, tensor.division[1].i),
                       !.division[1].remaining = @ \div tensor.division[1].i]
               ELSE [tensor EXCEPT !.division[1].i = @ + 2]
  /\ UNCHANGED <<store, heap, config, built, last, scheme, agentic>>

\* the for loop ends: `if (remaining > 2) factors.push(remaining)`, the cache
\* entry is set and the factors are returned
LeaveOdds ==
  /\ tensor.pc = "division"
  /\ tensor.division[1].loop = "odds"
  /\ tensor.division[1].i * tensor.division[1].i > tensor.division[1].remaining
  /\ \E factors \in {IF tensor.division[1].remaining > 2
                       THEN Append(tensor.division[1].factors,
                                   tensor.division[1].remaining)
                       ELSE tensor.division[1].factors} :
       tensor' = [tensor EXCEPT
                    !.division[1].factors = factors,
                    !.division[1].loop = "returned",
                    !.primeCache = @ \cup {[n |-> tensor.division[1].n,
                                            factors |-> factors]}]
  /\ UNCHANGED <<store, heap, config, built, last, scheme, agentic>>

NextDivision == DivideByTwo \/ LeaveTwos \/ OddStep \/ LeaveOdds

SpecDivision == InitDivision /\ [][NextDivision]_vars

(* ------------------------------ shape validation session ------------- *)

InitShape ==
  /\ store = EmptyStore
  /\ heap = <<>>
  /\ config = DefaultConfig
  /\ built = TRUE
  /\ last = NoCall
  /\ scheme = SchemeIdle
  /\ agentic = AgenticIdle
  /\ tensor = [TensorIdle EXCEPT !.pc = "shape"]

\* processor.validateTensorShape(shape)
ValidateTensorShapeCall ==
  /\ tensor.pc = "shape"
  /\ \E shape \in BoundaryShapes :
       tensor' = [tensor EXCEPT !.pc = "validated",
                                !.request = [shape |-> shape, data |-> None],
                                !.validation = Some(ValidationResult(shape))]
  /\ UNCHANGED <<store, heap, config, built, last, scheme, agentic>>

NextShape == ValidateTensorShapeCall

SpecShape == InitShape /\ [][NextShape]_vars

(* ------------------------------ store claims -------------------------- *)

Stored == Range(store.atoms)

\* the ids held by an index
IndexIds(m) == UNION {m[i].ids : i \in 1..Len(m)}

RECURSIVE Refers(_, _, _)
\* atom a refers to the atom with this id, directly or through a chain of links
Refers(h, a, id) ==
  \/ id \in Range(h[a].outgoing)
  \/ \E o \in Range(h[a].outgoing) : Refers(h, o, id)

\* C1: every atom in the outgoing sequence of every link held by the store is
\* itself held by the store.
C1_OutgoingHeld ==
  \A l \in Stored : \A o \in Range(heap[l].outgoing) : o \in Stored

\* C2: in a store built only through createNode and createLink, after
\* removeAtom(id) of a stored atom the store holds neither that atom nor any
\* link that referred to it directly or through a chain of links, and no id
\* that left the store is still in the type index or the name index.
C2_RemoveCascades ==
  (last.op = "removeAtom" /\ last.ok /\ last.built) =>
    /\ last.id \notin Stored
    /\ \A l \in Stored : ~Refers(heap, l, last.id)
    /\ IndexIds(store.typeIndex) \subseteq Stored
    /\ IndexIds(store.nameIndex) \subseteq Stored

\* C3: the number of atoms held is at most the configured maximum atom count.
C3_CapacityBound == Len(store.atoms) <= config.maxAtoms

\* C9: no public operation raises an exception to its caller.
C9_NoException == last.outcome # "threw"

\* C12: after any sequence of createNode, createLink, removeAtom and garbage
\* collection, getAtomsByType(t) is exactly the stored atoms of type t,
\* getAtomsByName(n) of a non-empty name n exactly the stored atoms named n,
\* and getAtom(id) an atom exactly when the id is stored; a miss is empty.
C12_IndicesAgree ==
  /\ \A t \in QueryTypes :
       GetAtomsByType(store, t) = {a \in Stored : heap[a].type = t}
  /\ \A n \in QueryNames \ {<<>>} :
       GetAtomsByName(store, n) = {a \in Stored : heap[a].name = Some(n)}
  /\ \A id \in 1..(Len(heap) + 1) :
       GetAtom(store, id) = {a \in Stored : a = id}

\* atoms of a type and of a name have left the store, and the getters still
\* return atoms of that type and of that name
C12_Witness ==
  /\ ~built
  /\ \E t \in QueryTypes, n \in QueryNames :
       /\ GetAtomsByType(store, t) # {}
       /\ GetAtomsByName(store, n) # {}
       /\ \E a, b \in 1..Len(heap) :
            /\ a \notin Stored /\ heap[a].type = t
            /\ b \notin Stored /\ heap[b].name = Some(n)

\* C13: with garbage collection disabled, createNode or createLink on a store
\* that holds maxAtoms atoms fails with the error 'AtomSpace is full' and leaves
\* the primary table, the type index and the name index as they were.
C13_FullStoreFails ==
  [][(/\ ~config.enableGarbageCollection
      /\ Len(store.atoms) >= config.maxAtoms
      /\ last'.op \in {"createNode", "createLink"})
     => (/\ last'.outcome = "threw"
         /\ last'.error = Some("AtomSpace is full")
         /\ store' = store)]_vars

\* createLink threw on a full store that holds named and unnamed atoms
C13_Witness ==
  /\ last.op = "createLink" /\ last.outcome = "threw"
  /\ ~config.enableGarbageCollection
  /\ Len(store.atoms) = config.maxAtoms
  /\ store.nameIndex # <<>>
  /\ \E a \in Stored : heap[a].name = None

\* C14: removeAtom of a stored link leaves every stored atom of the link's
\* outgoing array in the store, in the type index and in the name index; the
\* atoms that leave the store are the link and links that refer to it, directly
\* or through a chain of links.
C14_RemoveLinkKeepsOutgoing ==
  [][(last'.op = "removeAtom" /\ last'.ok /\ heap[last'.id].isLink)
     => (/\ \A o \in Range(heap[last'.id].outgoing) \cap Stored :
              /\ o \in Stored'
              /\ o \in IndexGet(store'.typeIndex, heap[o].type)
              /\ Truthy(heap[o].name) =>
                   o \in IndexGet(store'.nameIndex, heap[o].name[1])
         /\ \A a \in Stored \ Stored' :
              a = last'.id \/ Refers(heap, a, last'.id))]_vars

\* a stored link with a stored, named outgoing atom was removed, and a link
\* that referred to it left the store with it
C14_Witness ==
  /\ last.op = "removeAtom" /\ last.ok
  /\ heap[last.id].isLink
  /\ \E o \in Range(heap[last.id].outgoing) : o \in Stored /\ Truthy(heap[o].name)
  /\ \E a \in 1..Len(heap) : a \notin Stored /\ Refers(heap, a, last.id)

(* ------------------------------ SchemeAdapter claims ------------------ *)

\* a list whose first child is one of the keyword symbols
HeadedByKeyword(expr) ==
  /\ expr.type = "list"
  /\ expr.children # <<>>
  /\ LinkTypeFor(expr.children[1]) # LIST_LINK

\* C5: a list headed by lambda, apply, inheritance or evaluation that went
\* through schemeToAtoms, atomsToScheme and expressionToString comes back as the
\* text of the original expression, with as many children as it had.
C5_KeywordRoundTrip ==
  (scheme.pc = "done" /\ scheme.removed = 0 /\ HeadedByKeyword(scheme.parsed.result)) =>
    /\ scheme.backText = ExpressionToString(scheme.parsed.result)
    /\ Len(scheme.back.result.children) = Len(scheme.parsed.result.children)

\* C6: for every tree t that parseScheme returned, the printed text of t parses,
\* and printing that parse gives the printed text of t again.
C6_PrintIdempotent ==
  /\ (Len(scheme.texts) >= 2 /\ scheme.pc = "parsed") => scheme.parsed.success
  /\ Len(scheme.texts) = 3 => scheme.texts[3] = scheme.texts[2]

\* a text was printed, parsed and printed again, and the first printing had
\* changed it: a list holding a string or a number
C6_Witness ==
  /\ Len(scheme.texts) = 3
  /\ scheme.texts[2] # scheme.texts[1]
  /\ scheme.parsed.result.type = "list"
  /\ \E i \in 1..Len(scheme.parsed.result.children) :
       scheme.parsed.result.children[i].type \in {"string", "number"}

RECURSIVE Reached(_, _)
\* the atoms convertAtomToExpression dereferences from atom a
Reached(h, a) == {a} \cup UNION {Reached(h, h[a].outgoing[i]) : i \in 1..Len(h[a].outgoing)}

\* C10: atomsToScheme returns a failure whenever a link it dereferences has an
\* outgoing atom that the store no longer holds.
C10_MissingAtomFails ==
  (/\ scheme.pc \in {"back", "done"}
   /\ FindRootAtom(heap, scheme.atoms.result).found
   /\ \E l \in Reached(heap, FindRootAtom(heap, scheme.atoms.result).atom) :
        \E i \in 1..Len(heap[l].outgoing) : heap[l].outgoing[i] \notin Stored)
  => ~scheme.back.success

\* a `)` token stands in the token stream with no `(` token before it
UnopenedClose(tokens) ==
  \E i \in 1..Len(tokens) :
    /\ tokens[i] = <<")">>
    /\ \A j \in 1..(i - 1) : tokens[j] # <<"(">>

\* C15: parseScheme fails with 'Unexpected closing parenthesis' on every text
\* whose tokens hold a `)` with no `(` before it.
C15_UnopenedCloseFails ==
  (scheme.pc = "parsed" /\ UnopenedClose(Tokenize(scheme.texts[Len(scheme.texts)])))
  => /\ ~scheme.parsed.success
     /\ scheme.parsed.error = Some("Unexpected closing parenthesis")

RECURSIVE Unclosed(_, _, _)
\* the number of `(` tokens from token i on that no later `)` token matches,
\* given the number open before token i
Unclosed(tokens, i, open) ==
  IF i > Len(tokens) THEN open
  ELSE IF tokens[i] = <<"(">> THEN Unclosed(tokens, i + 1, open + 1)
  ELSE IF tokens[i] = <<")">> /\ open > 0 THEN Unclosed(tokens, i + 1, open - 1)
  ELSE Unclosed(tokens, i + 1, open)

\* C16: parseScheme fails with 'Missing closing parenthesis' on every text in
\* which some `(` token has no matching `)` token.
C16_UnclosedListFails ==
  (/\ scheme.pc = "parsed"
   /\ Unclosed(Tokenize(scheme.texts[Len(scheme.texts)]), 1, 0) > 0)
  => /\ ~scheme.parsed.success
     /\ scheme.parsed.error = Some("Missing closing parenthesis")

(* ------------------------------ AgenticTranslator claims -------------- *)

\* the primitive has no context and only string and number parameters
ScalarPrimitive(primitive) ==
  /\ primitive.context = None
  /\ \A i \in 1..Len(primitive.parameters) :
       primitive.parameters[i].value.t \in {"string", "number"}

\* C4: for a primitive with no context and only string and number parameters,
\* hypergraphToAgentic of agenticToHypergraph's atoms succeeds with the same
\* action, the same parameter keys and every value equal to the original.
C4_ScalarRoundTrip ==
  (agentic.pc = "back" /\ agentic.removed = 0 /\ ScalarPrimitive(agentic.primitive)) =>
    /\ agentic.back.success
    /\ agentic.back.result.action = agentic.primitive.action
    /\ Range(agentic.back.result.parameters) = Range(agentic.primitive.parameters)

\* C11: for a primitive that has a context, hypergraphToAgentic of
\* agenticToHypergraph's atoms succeeds and returns a context with the
\* primitive's agent and goal.
C11_ContextRoundTrip ==
  (agentic.pc = "back" /\ agentic.removed = 0 /\ agentic.primitive.context # None) =>
    /\ agentic.back.success
    /\ agentic.back.result.context # None
    /\ agentic.back.result.context[1].agent = agentic.primitive.context[1].agent
    /\ agentic.back.result.context[1].goal = agentic.primitive.context[1].goal

\* a loss value lies in [0, 1]
UnitInterval(loss) == 0 <= loss /\ loss <= LossScale

\* C17: for every pair of an original and a reconstructed primitive the loss
\* metric returns structuralLoss, semanticLoss and totalLoss each in [0, 1].
C17_LossesInUnitInterval ==
  agentic.pc = "measured" =>
    /\ UnitInterval(agentic.test.lossMetrics[1].structuralLoss)
    /\ UnitInterval(agentic.test.lossMetrics[1].semanticLoss)
    /\ UnitInterval(agentic.test.lossMetrics[1].totalLoss)

\* the original has no parameters, the reconstructed has two, and the
\* structural loss, 2 / max(0, 1) before the normalization, is 1
C17_Witness ==
  /\ agentic.pc = "measured"
  /\ agentic.primitive.parameters = <<>>
  /\ Len(agentic.back.result.parameters) = 2
  /\ agentic.test.lossMetrics[1].structuralLoss = LossScale

\* C18: roundTripTest returns isValid = true exactly when both translations
\* succeed and totalLoss = (structuralLoss + semanticLoss) / 2 is below 0.1;
\* when one of them fails it returns isValid = false, no loss metrics and no
\* final primitive.
C18_ValidIffLowLoss ==
  agentic.pc = "tested" =>
    /\ (agentic.atoms.success /\ agentic.back.success) =>
         /\ agentic.test.lossMetrics # None
         /\ agentic.test.final = Some(agentic.back.result)
         /\ 2 * agentic.test.lossMetrics[1].totalLoss =
              agentic.test.lossMetrics[1].structuralLoss
                + agentic.test.lossMetrics[1].semanticLoss
         /\ agentic.test.isValid <=>
              10 * agentic.test.lossMetrics[1].totalLoss < LossScale
    /\ ~(agentic.atoms.success /\ agentic.back.success) =>
         /\ ~agentic.test.isValid
         /\ agentic.test.lossMetrics = None
         /\ agentic.test.final = None

\* both translations succeeded and the test is not valid: the loss is 0.1 or
\* more
C18_Witness ==
  /\ agentic.pc = "tested"
  /\ agentic.atoms.success /\ agentic.back.success
  /\ ~agentic.test.isValid
  /\ agentic.test.lossMetrics[1].totalLoss > 0

(* ------------------------------ tensor fragment claims ---------------- *)

\* C7: deserializeTensorFragment of a serialized fragment whose checksum field
\* was changed to another value, emptied or deleted fails with the checksum
\* error and returns no fragment.
C7_TamperedChecksumFails ==
  (tensor.pc = "restored" /\ tensor.tampered) =>
    /\ ~tensor.restored.success
    /\ tensor.restored.result = None
    /\ tensor.restored.error = Some("Checksum validation failed - data may be corrupted")

\* C8: every fragment in the fragment table has a buffer as long as the product
\* of its five dimensions, and createTensorFragment with data of another length
\* produces no fragment.
C8_BufferMatchesShape ==
  /\ \A i \in 1..Len(tensor.fragments) :
       Len(tensor.fragments[i].data) = CalculateTensorSize(tensor.fragments[i].shape)
  /\ (/\ tensor.pc \notin {"idle", "start"}
      /\ tensor.request.data # None
      /\ Len(tensor.request.data[1]) # CalculateTensorSize(tensor.request.shape))
     => tensor.created.result = None

IsPrime(p) == p > 1 /\ \A d \in 2..(p - 1) : p % d # 0

RECURSIVE Product(_)
Product(factors) == IF factors = <<>> THEN 1 ELSE Head(factors) * Product(Tail(factors))

\* C19: for every n >= 1 the factor list of generatePrimeFactorizationMapping(n)
\* holds only primes, in ascending order, with product n (no factor for n = 1),
\* and it is the list a processor with an empty cache returns.
C19_FactorsArePrime ==
  tensor.mapping # None =>
    /\ \A i \in 1..Len(tensor.mapping[1].factors) : IsPrime(tensor.mapping[1].factors[i])
    /\ \A i \in 1..(Len(tensor.mapping[1].factors) - 1) :
         tensor.mapping[1].factors[i] <= tensor.mapping[1].factors[i + 1]
    /\ Product(tensor.mapping[1].factors) = tensor.mapping[1].originalSize
    /\ tensor.mapping[1].factors =
         GeneratePrimeFactorization({}, tensor.mapping[1].originalSize).factors

\* a size with a repeated odd factor and a factor 2 was answered from the cache
C19_Witness ==
  /\ tensor.mapping # None
  /\ tensor.hit
  /\ tensor.mapping[1].originalSize = 18
  /\ tensor.mapping[1].factors = <<2, 3, 3>>

\* C20: deserializeTensorFragment of serializeTensorFragment of a stored
\* fragment f succeeds and returns a fragment with f's shape, buffer contents and
\* factor list under another id; the fragment table then holds f, unchanged, and
\* the new fragment.
C20_SerializeRoundTrip ==
  (tensor.pc = "restored" /\ ~tensor.tampered) =>
    /\ tensor.restored.success
    /\ tensor.restored.result # None
    /\ tensor.restored.result[1].shape = tensor.created.result[1].shape
    /\ tensor.restored.result[1].data = tensor.created.result[1].data
    /\ tensor.restored.result[1].primeFactors = tensor.created.result[1].primeFactors
    /\ tensor.restored.result[1].id # tensor.created.result[1].id
    /\ tensor.fragments = <<tensor.created.result[1], tensor.restored.result[1]>>

\* a fragment with a caller's buffer of two floats, one of them 1.0, and a
\* factor went through the round trip a millisecond after it was created
C20_Witness ==
  /\ tensor.pc = "restored" /\ ~tensor.tampered
  /\ tensor.restored.success
  /\ Len(tensor.fragments) = 2
  /\ tensor.request.data # None
  /\ Len(tensor.fragments[2].data) = 2
  /\ One \in Range(tensor.fragments[2].data)
  /\ tensor.fragments[2].primeFactors = <<2>>
  /\ tensor.fragments[2].metadata.lastModified > tensor.fragments[2].metadata.created


\* the five dimensions with their upper bounds and their two messages
Dimensions ==
  { [name |-> "modality", max |-> 1000,
     positive |-> "Modality dimension must be a positive integer",
     bounded |-> "Modality dimension exceeds reasonable bounds (max 1000)"],
    [name |-> "depth", max |-> 100,
     positive |-> "Depth dimension must be a positive integer",
     bounded |-> "Depth dimension exceeds reasonable bounds (max 100)"],
    [name |-> "context", max |-> 10000,
     positive |-> "Context dimension must be a positive integer",
     bounded |-> "Context dimension exceeds reasonable bounds (max 10000)"],
    [name |-> "salience", max |-> 1000,
     positive |-> "Salience dimension must be a positive integer",
     bounded |-> "Salience dimension exceeds reasonable bounds (max 1000)"],
    [name |-> "autonomy_index", max |-> 100,
     positive |-> "Autonomy index dimension must be a positive integer",
     bounded |-> "Autonomy index exceeds reasonable bounds (max 100)"] }

\* the dimension's value lies in 1..max
DimensionValid(shape, d) == shape[d.name] >= 1 /\ shape[d.name] <= d.max

\* C21: validateTensorShape, for each dimension with the other four valid, fails
\* when the dimension is 0 or negative, passes when it is 1, passes when it
\* equals its upper bound and fails when it is one more than that bound; with
\* several invalid dimensions every violation is reported, not only the first
C21_ShapeBoundaries ==
  tensor.validation # None =>
    LET shape == tensor.request.shape
        result == tensor.validation[1]
    IN /\ \A d \in Dimensions :
            (\A o \in Dimensions \ {d} : DimensionValid(shape, o)) =>
              /\ shape[d.name] <= 0 => ~result.success
              /\ shape[d.name] = 1 => result.success
              /\ shape[d.name] = d.max => result.success
              /\ shape[d.name] = d.max + 1 => ~result.success
       /\ \A d \in Dimensions :
            /\ shape[d.name] <= 0 => d.positive \in Range(result.validationErrors)
            /\ shape[d.name] > d.max => d.bounded \in Range(result.validationErrors)
       /\ Len(result.validationErrors)
            = Cardinality({d \in Dimensions : ~DimensionValid(shape, d)})

\* C21 witness: a shape with three invalid dimensions was validated and the call
\* reported three violations
C21_Witness ==
  /\ tensor.validation # None
  /\ tensor.request.shape = Shape(0, 101, 10000, -1, 1)
  /\ ~tensor.validation[1].success
  /\ Len(tensor.validation[1].validationErrors) = 3


\* the atoms of the result that are predicate nodes
PredicateNodes(atoms) ==
  {a \in Range(atoms) : heap[a].type = PREDICATE_NODE /\ ~heap[a].isLink}

\* the list link's outgoing sequence is key node, value node for each parameter
\* in order
HoldsParameters(list, parameters) ==
  /\ Len(heap[list].outgoing) = 2 * Len(parameters)
  /\ \A i \in 1..Len(parameters) :
       /\ heap[heap[list].outgoing[2 * i - 1]].type = CONCEPT_NODE
       /\ heap[heap[list].outgoing[2 * i - 1]].name = Some(parameters[i].key)
       /\ heap[heap[list].outgoing[2 * i]].type = CONCEPT_NODE
       /\ heap[heap[list].outgoing[2 * i]].value = Some(parameters[i].value)

\* C22: for every primitive, also with no parameters or an empty action string,
\* agenticToHypergraph on a store with room succeeds and its result holds exactly
\* one predicate node, named by the action, and an evaluation link whose outgoing
\* sequence is [that node, a list link]; the list link's outgoing sequence holds
\* one key node followed by one value node per parameter, in parameter order
C22_ForwardStructure ==
  (agentic.pc \in {"atoms", "tested"} /\ config = DefaultConfig) =>
    /\ agentic.atoms.success
    /\ Cardinality(PredicateNodes(agentic.atoms.result)) = 1
    /\ \A n \in PredicateNodes(agentic.atoms.result) :
         /\ heap[n].name = Some(agentic.primitive.action)
         /\ \E e, l \in Range(agentic.atoms.result) :
              /\ heap[e].type = EVALUATION_LINK
              /\ heap[e].outgoing = <<n, l>>
              /\ heap[l].type = LIST_LINK
              /\ HoldsParameters(l, agentic.primitive.parameters)

\* C22 witness: a primitive with an empty action string, two parameters and a
\* context was translated, and one with no parameters at all
C22_Witness ==
  /\ agentic.pc = "atoms"
  /\ config = DefaultConfig
  /\ agentic.atoms.success
  /\ agentic.primitive.action = <<>>
  /\ Len(agentic.primitive.parameters) = 2
  /\ agentic.primitive.context # None
  /\ Len(agentic.atoms.result) > 7

\* C22 second case: the primitive has no parameters and the list link is empty
C22_WitnessNoParameters ==
  /\ agentic.pc = "atoms"
  /\ config = DefaultConfig
  /\ agentic.primitive.parameters = <<>>
  /\ Len(agentic.atoms.result) = 3


\* C23: for every primitive p, schemeToAgentic(agenticToScheme(p)) succeeds and
\* returns p's action and, for every parameter of p whose value is a string or
\* a number, the same value under the same key; also for a primitive with no
\* parameters and no context
C23_SchemeRoundTrip ==
  agentic.pc = "scheme" =>
    /\ agentic.viaScheme.success
    /\ agentic.viaScheme.result.action = agentic.primitive.action
    /\ \A i \in 1..Len(agentic.primitive.parameters) :
         agentic.primitive.parameters[i].value.t \in {"string", "number"} =>
           \E j \in 1..Len(agentic.viaScheme.result.parameters) :
             agentic.viaScheme.result.parameters[j] = agentic.primitive.parameters[i]


\* createTensorFragment was called with the shape {modality: 2, depth: 3,
\* context: 4, salience: 5, autonomy_index: 2} and no data
CreatedFromShapeAlone ==
  /\ tensor.pc \notin {"idle", "start"}
  /\ tensor.request.shape = Shape(2, 3, 4, 5, 2)
  /\ tensor.request.data = None

\* C24 as stated: creating a tensor fragment with shape {modality: 2, depth: 3,
\* context: 4, salience: 5, autonomy_index: 2} and no caller-supplied data passes
\* validation and yields a buffer of length 120
C24_BufferLength120 ==
  CreatedFromShapeAlone =>
    /\ tensor.created.success
    /\ tensor.created.result # None
    /\ Len(tensor.created.result[1].data) = 120

\* C24 amended: creating a tensor fragment with that shape and no caller-supplied
\* data passes validation and yields a buffer of length 240, the product of the
\* five dimensions
C24_BufferLength240 ==
  CreatedFromShapeAlone =>
    /\ tensor.created.success
    /\ tensor.created.validationErrors = <<>>
    /\ tensor.created.result # None
    /\ Len(tensor.created.result[1].data) = 240

\* C24 witness: the fragment of that shape was created and stored
C24_Witness ==
  /\ CreatedFromShapeAlone
  /\ tensor.pc = "created"
  /\ Len(tensor.fragments) = 1
  /\ tensor.fragments[1].shape = Shape(2, 3, 4, 5, 2)


\* the link type the first child of a list calls for
ExpectedLinkType(children) ==
  IF children = <<>> \/ children[1].type # "symbol" THEN LIST_LINK
  ELSE IF children[1].value = <<"l", "a", "m", "b", "d", "a">> THEN LAMBDA_LINK
  ELSE IF children[1].value = <<"a", "p", "p", "l", "y">> THEN APPLICATION_LINK
  ELSE IF children[1].value
            = <<"i", "n", "h", "e", "r", "i", "t", "a", "n", "c", "e">>
  THEN INHERITANCE_LINK
  ELSE IF children[1].value = <<"e", "v", "a", "l", "u", "a", "t", "i", "o", "n">>
  THEN EVALUATION_LINK
  ELSE LIST_LINK

RECURSIVE ConvertedFrom(_, _)
\* atom a is the conversion of the expression: a node named by a leaf, or a link
\* of the type the list calls for whose outgoing atoms are the conversions of the
\* children in order
ConvertedFrom(a, expr) ==
  IF expr.type = "list"
  THEN /\ heap[a].isLink
       /\ heap[a].type = ExpectedLinkType(expr.children)
       /\ Len(heap[a].outgoing) = Len(expr.children)
       /\ \A i \in 1..Len(expr.children) :
            ConvertedFrom(heap[a].outgoing[i], expr.children[i])
  ELSE /\ ~heap[a].isLink
       /\ heap[a].name = Some(IF expr.type = "number" THEN NumberToString(expr.num)
                              ELSE expr.value)

RECURSIVE ListCount(_)
\* the number of lists in the expression: the lists of the first child and
\* those of the list of the other children
ListCount(expr) ==
  IF expr.type # "list" THEN 0
  ELSE IF expr.children = <<>> THEN 1
  ELSE ListCount(expr.children[1]) + ListCount(List(Tail(expr.children)))

\* C25: schemeToAtoms of a list creates exactly one link for each list, of the
\* lambda, application, inheritance or evaluation type exactly when the first
\* child is the symbol lambda, apply, inheritance or evaluation (a string with
\* that text does not count) and of the list type otherwise, whose outgoing
\* sequence is the converted children in order, head included; an empty list
\* becomes a list link with empty outgoing
C25_ListBecomesLink ==
  (scheme.pc \in {"atoms", "back", "done"} /\ scheme.parsed.result.type = "list") =>
    /\ scheme.atoms.success
    /\ Len(scheme.atoms.result) > 0
    /\ ConvertedFrom(scheme.atoms.result[Len(scheme.atoms.result)],
                     scheme.parsed.result)
    /\ Cardinality({a \in 1..Len(heap) : heap[a].isLink})
         = ListCount(scheme.parsed.result)

\* C25 witness: the list ("lambda" a), headed by a string, became a list link
\* with two outgoing atoms
C25_Witness ==
  /\ scheme.pc = "atoms"
  /\ scheme.atoms.success
  /\ scheme.parsed.result = List(<<String(<<"l", "a", "m", "b", "d", "a">>),
                                   Symbol(<<"a">>)>>)
  /\ heap[scheme.atoms.result[Len(scheme.atoms.result)]].type = LIST_LINK
  /\ Len(heap[scheme.atoms.result[Len(scheme.atoms.result)]].outgoing) = 2

\* C25 second case: the list (evaluation a (a)) became an evaluation link over
\* three atoms, the last one a list link
C25_WitnessKeyword ==
  /\ scheme.pc = "atoms"
  /\ scheme.atoms.success
  /\ heap[scheme.atoms.result[Len(scheme.atoms.result)]].type = EVALUATION_LINK
  /\ Len(heap[scheme.atoms.result[Len(scheme.atoms.result)]].outgoing) = 3


\* the atoms of the array that no link of the array refers to
Unreferenced(atoms) ==
  {a \in Range(atoms) :
     \A l \in Range(atoms) : ~(heap[l].isLink /\ a \in Range(heap[l].outgoing))}

\* the atoms the conversion may start from: the unreferenced links when there
\* are several unreferenced atoms and a link is among them, else the
\* unreferenced atoms
PreferredRoots(atoms) ==
  IF Cardinality(Unreferenced(atoms)) > 1
     /\ \E a \in Unreferenced(atoms) : heap[a].isLink
  THEN {a \in Unreferenced(atoms) : heap[a].isLink}
  ELSE Unreferenced(atoms)

\* C26: atomsToScheme converts from the atom of the given array that no link of
\* the array refers to, from a link in preference to a node when several atoms
\* are unreferenced; when every atom of a non-empty array is referenced by some
\* link of the array it fails with a 'circular reference detected' error
C26_RootChoice ==
  scheme.pc = "back" =>
    /\ (scheme.atoms.result # <<>> /\ Unreferenced(scheme.atoms.result) = {}) =>
         /\ ~scheme.back.success
         /\ scheme.back.error
              = Some("No root atom found - circular reference detected")
    /\ Unreferenced(scheme.atoms.result) # {} =>
         /\ scheme.back.error
              # Some("No root atom found - circular reference detected")
         /\ scheme.back.success =>
              \E a \in PreferredRoots(scheme.atoms.result) :
                /\ ~Overflows(heap, a)
                /\ scheme.back.result = ConvertAtomToExpression(heap, a)
         /\ ~scheme.back.success =>
              \E a \in PreferredRoots(scheme.atoms.result) : Overflows(heap, a)

\* C26 witness: a node and a link over another atom were given, the node first;
\* both are unreferenced and the conversion started from the link
C26_Witness ==
  /\ scheme.pc = "back"
  /\ scheme.atoms.result = <<1, 2>>
  /\ ~heap[1].isLink
  /\ heap[2].isLink /\ heap[2].outgoing = <<3>> /\ ~heap[3].isLink
  /\ scheme.back.success
  /\ scheme.back.result = List(<<Symbol(<<"c">>)>>)

\* C26 second case: two links that refer to each other were given and the call
\* failed
C26_WitnessCircular ==
  /\ scheme.pc = "back"
  /\ scheme.atoms.result = <<1, 2>>
  /\ heap[1].outgoing = <<2>> /\ heap[2].outgoing = <<1>>
  /\ ~scheme.back.success


\* one partition per factor, in factor order, each covering floor(n / factor)
\* consecutive indices, the first from index 0 and each next one from the
\* previous endIndex + 1
PartitionPerFactor(m) ==
  /\ Len(m.partitions) = Len(m.factors)
  /\ \A i \in 1..Len(m.partitions) :
       /\ m.partitions[i].factor = m.factors[i]
       /\ m.partitions[i].endIndex - m.partitions[i].startIndex + 1
            = m.originalSize \div m.factors[i]
       /\ m.partitions[i].startIndex
            = IF i = 1 THEN 0 ELSE m.partitions[i - 1].endIndex + 1

C30_LoopMakesProgress ==
  [][(/\ tensor.division # None /\ tensor'.division # None
      /\ tensor'.division[1].loop = tensor.division[1].loop)
     => \/ tensor'.division[1].remaining < tensor.division[1].remaining
        \/ /\ tensor'.division[1].remaining = tensor.division[1].remaining
           /\ tensor'.division[1].i > tensor.division[1].i]_vars


\* the step is a createNode or createLink that found the store full with
\* eviction enabled: addAtom ran garbageCollect before inserting
Swept ==
  /\ config.enableGarbageCollection
  /\ Len(store.atoms) >= config.maxAtoms
  /\ last'.op \in {"createNode", "createLink"}
  /\ heap' # heap

\* the atom carries a truth value whose strength is below the threshold
BelowThreshold(a) ==
  /\ heap[a].truthValue # None
  /\ heap[a].truthValue[1].strength < config.truthValueThreshold

\* C28 as stated: a capacity-triggered eviction sweep removes only atoms that
\* carry a truth value whose strength is below the configured threshold: every
\* atom with no truth value, and every atom whose strength is at or above the
\* threshold, is still in the store after the sweep
C28_SweepRemovesOnlyWeak ==
  [][Swept => \A a \in Stored : ~BelowThreshold(a) => a \in Stored']_vars

\* C28 amended: a capacity-triggered eviction sweep removes only atoms that
\* carry a truth value whose strength is below the configured threshold and
\* links that refer to an atom the sweep removes; every other atom is still in
\* the store after the sweep
C28_SweepRemovesWeakAndReferrers ==
  [][Swept =>
       \A a \in Stored \ Stored' :
         \/ BelowThreshold(a)
         \/ /\ heap[a].isLink
            /\ \E b \in Range(heap[a].outgoing) : b \in Stored \ Stored']_vars

\* C28 witness: with no removeAtom call made, a weak node and a link over it
\* with no truth value were stored; the sweep of a later createNode evicted the
\* node and, with it, the link
C28_Witness ==
  /\ built
  /\ config.enableGarbageCollection
  /\ last.op = "createNode"
  /\ Len(heap) >= 3
  /\ heap[1].truthValue = Weak
  /\ heap[2].isLink /\ heap[2].outgoing = <<1>> /\ heap[2].truthValue = None
  /\ 1 \notin Stored /\ 2 \notin Stored
  /\ Stored # {}

====
